---- MODULE Spec2Model ----
(***************************************************************************)
(* A model of flask-pydantic-spec: the per-request validation lifecycle of *)
(* FlaskBackend.validate, the decorator / model registry and document      *)
(* assembly of FlaskPydanticSpec, and Config.                              *)
(*                                                                         *)
(* Three specifications share the variables; each one leaves the           *)
(* variables of the other two parts untouched:                             *)
(*   Spec        one request through FlaskBackend.validate                 *)
(*   SpecDoc     decoration, route registration and the `spec` property    *)
(*   SpecConfig  Config.__init__ / Config.update                           *)
(***************************************************************************)
EXTENDS Integers, Sequences, FiniteSets, TLC

VARIABLES
    \* ---- the request lifecycle (flask_backend.py) ----
    config_code,          \* self.config.VALIDATION_ERROR_CODE
    route,                \* what validate(...) captured for the decorated handler
    pc,                   \* position inside FlaskBackend.validate
    request,              \* the inbound request, as far as validation looks at it
    response,             \* local `response`
    req_validation_error, \* local `req_validation_error`
    resp_validation_error,\* local `resp_validation_error`
    handler_out,          \* what func(*args, **kwargs) returned
    log,                  \* the calls made so far, in order
    before_args,          \* the (response, error) the before-hook was called with
    after_args,           \* the (response, error) the after-hook was called with
    returned,             \* what validate handed back to the framework
    exception,            \* the exception raised while validate ran, if one was
    \* ---- decoration and the document (spec.py) ----
    mode,                 \* self.config.MODE of instance A
    attrs,                \* the attributes set on each view function
    rules,                \* app.url_map, in registration order
    models,               \* self.models of instance A: name -> schema object
    heap,                 \* the schema objects (dicts) created so far
    spec_cache,           \* self._spec of instance A, once set
    spec_returned,        \* what the last access of A.spec returned
    accesses,             \* how often A.spec was accessed
    first_value,          \* the document the first access returned, by value
    gen_attrs,            \* attrs as the last document build read them
    gen_rules,            \* rules as the last document build read them
    decorated,            \* the last validate(...)(func) call and its outcome
    \* ---- the configuration object (config.py) ----
    config_attrs,         \* the attributes of the Config object
    config_call,          \* the last call made on it: none, init or update
    config_kwargs,        \* the keyword arguments of that call, in order
    config_raised,        \* whether that call raised
    \* ---- one call of a function of utils.py or of the backend ----
    fn_args,              \* the arguments of the call
    fn_result,            \* what the call returned or raised
    \* ---- threads reading the `spec` property of one instance ----
    registry,             \* self.models: the registered classes, in key order
    buckets,              \* the "definitions" bucket of each registered schema
    self_tags,            \* self.tags
    self_spec,            \* self._spec, once set
    threads               \* each thread's position and local variables

reqVars == << config_code, route, pc, request, response, req_validation_error,
              resp_validation_error, handler_out, log, before_args,
              after_args, returned, exception >>

docVars == << mode, attrs, rules, models, heap, spec_cache, spec_returned,
              accesses, first_value, gen_attrs, gen_rules, decorated >>

cfgVars == << config_attrs, config_call, config_kwargs, config_raised >>

fnVars == << fn_args, fn_result >>

raceVars == << registry, buckets, self_tags, self_spec, threads >>

vars == << reqVars, docVars, cfgVars, fnVars, raceVars >>

----------------------------------------------------------------------------
(* Values *)

None == "None"

\* Config.__init__: self.VALIDATION_ERROR_CODE = 422
DefaultValidationErrorCode == 422
\* the api fixture of the tests: validation_error_code=400
OtherValidationErrorCode == 400
\* make_response(jsonify({"message": "response validation error"}), 500)
ResponseValidationStatus == 500
\* status codes of the handlers' own responses
StatusOK == 200
StatusNotFound == 404

ValidationErrorCodes == {DefaultValidationErrorCode, OtherValidationErrorCode}
HandlerStatuses == {StatusOK, StatusNotFound}

\* The keyword order of Context(query=..., body=..., headers=..., cookies=...)
Slots == << "query", "body", "headers", "cookies" >>
SlotNames == {Slots[i] : i \in 1..Len(Slots)}

\* Response models a descriptor can bind to a status code
RespModels == {"Resp", "Users"}

\* A response as validate sees it: status, body and the headers hooks added.
NoResponse == [status |-> 0, body |-> None, headers |-> {}]
NoArgs == [called |-> FALSE, resp |-> NoResponse, err |-> None]

GenericMessage == "response validation error"

\* What a hook does when called: the default handlers only log, the hooks of
\* the tests add a header to the response, and any hook may raise.
HookEffects == {"log", "header", "raise"}

----------------------------------------------------------------------------
(* Response descriptors (types.py) *)

NoModels == [c \in HandlerStatuses |-> None]

\* resp=None, FileResponse(), or Response(HTTP_xxx=model-or-None, validate=...)
RespDescriptors ==
    {[kind |-> None, code_models |-> NoModels, validate |-> FALSE],
     [kind |-> "FileResponse", code_models |-> NoModels, validate |-> FALSE]}
    \cup [kind : {"Response"},
          code_models : [HandlerStatuses -> RespModels \cup {None}],
          validate : BOOLEAN]

\* `if resp` in validate: a descriptor object is truthy, None is not
IsGiven(resp) == resp.kind # None

\* Response.has_model / FileResponse.has_model
has_model(resp) ==
    IF resp.kind = "Response"
    THEN \E c \in HandlerStatuses : resp.code_models[c] # None
    ELSE FALSE

\* Response.find_model: self.code_models.get(f"HTTP_{code}")
find_model(resp, code) ==
    IF code \in DOMAIN resp.code_models THEN resp.code_models[code] ELSE None

\* getattr(resp, "validate", False): FileResponse has no such attribute
validate_enabled(resp) ==
    IF resp.kind = "Response" THEN resp.validate ELSE FALSE

----------------------------------------------------------------------------
(* Requests, handlers and the schema library *)

\* Bodies a handler can return, named by the one response model they satisfy
HandlerBodies == {"fits_Resp", "fits_Users", "fits_no_model"}

HandlerBody(b) == [kind |-> "handler", of |-> b]
ErrorPayload(slot) == [kind |-> "errors", of |-> slot]
MessageBody(m) == [kind |-> "message", of |-> m]

\* load_model_schema(model, data) on a response body: TRUE iff it validates
Conforms(model, body) ==
    \/ model = "Resp" /\ body = HandlerBody("fits_Resp")
    \/ model = "Users" /\ body = HandlerBody("fits_Users")

\* The body model request_validation looks at:
\* getattr(body, "model", None) if body else None, where sync_validate has
\* wrapped a bare model (or None) into Request(body)
body_model(r) == r.body = "Request(model)"

\* Is slot s declared, as request_validation tests it
Declared(r, s) ==
    CASE s = "query" -> r.query
      [] s = "body" -> body_model(r)
      [] s = "headers" -> r.headers
      [] s = "cookies" -> r.cookies

Routes ==
    [query : BOOLEAN, body : {None, "Request()", "Request(model)"},
     headers : BOOLEAN, cookies : BOOLEAN, resp : RespDescriptors,
     before : BOOLEAN, after : BOOLEAN]

\* A request: whether extracting the body raises (gzip.decompress or
\* json.loads on a body that is not gzip / not JSON), and the slots whose
\* raw data the slot's model rejects (a slot without a model has no model
\* to reject it).
Requests(r) ==
    [parse : {"ok", "raises"},
     bad : SUBSET {s \in SlotNames : Declared(r, s)}]

NoRequest == [parse |-> "ok", bad |-> {}]

\* load_model_schema(model, data) on the raw data of slot s: TRUE iff the
\* model accepts it
Accepts(req, s) == s \notin req.bad

\* The slots of `seq` from position i on: the first declared one whose
\* load_model_schema raises, or None
RECURSIVE FirstRejected(_, _, _, _)
FirstRejected(seq, i, r, req) ==
    IF i > Len(seq) THEN None
    ELSE IF Declared(r, seq[i]) /\ ~Accepts(req, seq[i]) THEN seq[i]
    ELSE FirstRejected(seq, i + 1, r, req)

\* A Context(...) whose keyword arguments are evaluated last to first
request_validation_backwards(r, req) ==
    FirstRejected(<< "cookies", "headers", "body", "query" >>, 1, r, req)

\* FlaskBackend.request_validation: Context(...) evaluates its keyword
\* arguments in order, and the first load_model_schema that rejects raises.
\* The result is the slot whose ValidationError is raised, or None.
request_validation(r, req) == FirstRejected(Slots, 1, r, req)

\* make_response(jsonify(json.loads(err.json())), 422): a fixed status
DraftResponseFixedCode(err, code) ==
    [status |-> DefaultValidationErrorCode, body |-> ErrorPayload(err),
     headers |-> {}]

\* make_response(jsonify(json.loads(err.json())), self.config.VALIDATION_ERROR_CODE)
DraftResponse(err, code) ==
    [status |-> code, body |-> ErrorPayload(err), headers |-> {}]

\* The 500 response built around the handler's own body
ResponseValidationFailureLeaking ==
    [status |-> ResponseValidationStatus, body |-> handler_out.body,
     headers |-> {}]

\* make_response(jsonify({"message": "response validation error"}), 500)
ResponseValidationFailure ==
    [status |-> ResponseValidationStatus, body |-> MessageBody(GenericMessage),
     headers |-> {}]

\* The instance-level hook whatever the decoration says
before_used_instance_only(r) == "instance"

\* sync_validate: `before or self.before`, `after or self.after`
before_used(r) == IF r.before THEN "route" ELSE "instance"
after_used(r) == IF r.after THEN "route" ELSE "instance"

Event(e, w) == [ev |-> e, who |-> w]

----------------------------------------------------------------------------
(* FlaskBackend.validate, one request *)

InitRequest ==
    /\ config_code \in ValidationErrorCodes
    /\ route \in Routes
    /\ pc = "idle"
    /\ request = NoRequest
    /\ response = NoResponse
    /\ req_validation_error = None
    /\ resp_validation_error = None
    /\ handler_out = NoResponse
    /\ log = << >>
    /\ before_args = NoArgs
    /\ after_args = NoArgs
    /\ returned = NoResponse
    /\ exception = None

\* The framework dispatches a request to sync_validate, which calls
\* self.backend.validate: response, req_validation_error,
\* resp_validation_error = None, None, None
Dispatch ==
    /\ pc = "idle"
    /\ \E req \in Requests(route) : request' = req
    /\ pc' = "start"
    /\ UNCHANGED << config_code, route, response, req_validation_error,
                    resp_validation_error, handler_out, log, before_args,
                    after_args, returned, exception >>
    /\ UNCHANGED << docVars, cfgVars, fnVars, raceVars >>

\* try: self.request_validation(...) except ValidationError as err: ...
\* An exception that is no ValidationError leaves validate at once.
RequestValidation ==
    /\ pc = "start"
    /\ IF request.parse = "raises"
       THEN /\ pc' = "raised"
            /\ exception' = "body_error"
            /\ UNCHANGED << response, req_validation_error, log >>
       ELSE LET err == request_validation(route, request) IN
            /\ req_validation_error' = err
            /\ response' = IF err = None THEN NoResponse
                           ELSE DraftResponse(err, config_code)
            /\ log' = Append(log, Event("request_validation", "backend"))
            /\ pc' = "validated"
            /\ UNCHANGED exception
    /\ UNCHANGED << config_code, route, request, resp_validation_error,
                    handler_out, before_args, after_args, returned >>
    /\ UNCHANGED << docVars, cfgVars, fnVars, raceVars >>

\* The response after a hook with the given effect ran on it
HookResult(resp, effect, header) ==
    IF effect = "header" /\ resp # NoResponse
    THEN [resp EXCEPT !.headers = @ \cup {header}]
    ELSE resp

\* A before-hook that is told nothing
BeforeArgsNull(resp, err) == [called |-> TRUE, resp |-> NoResponse, err |-> None]

\* before(request, response, req_validation_error, None)
BeforeArgs(resp, err) == [called |-> TRUE, resp |-> resp, err |-> err]

\* A before-hook whose exception is swallowed: validate carries on
BeforeHookSwallowing ==
    /\ pc = "validated"
    /\ \E effect \in HookEffects :
          /\ before_args' = BeforeArgs(response, req_validation_error)
          /\ log' = Append(log, Event("before", before_used(route)))
          /\ response' = HookResult(response, effect, "X-Error")
          /\ pc' = "before_called"
          /\ exception' = IF effect = "raise" THEN "before_hook_error"
                          ELSE exception
    /\ UNCHANGED << config_code, route, request, req_validation_error,
                    resp_validation_error, handler_out, after_args, returned >>
    /\ UNCHANGED << docVars, cfgVars, fnVars, raceVars >>

\* before(...) is called outside any try: what it raises leaves validate
BeforeHook ==
    /\ pc = "validated"
    /\ \E effect \in HookEffects :
          /\ before_args' = BeforeArgs(response, req_validation_error)
          /\ log' = Append(log, Event("before", before_used(route)))
          /\ response' = HookResult(response, effect, "X-Error")
          /\ pc' = IF effect = "raise" THEN "raised" ELSE "before_called"
          /\ exception' = IF effect = "raise" THEN "before_hook_error"
                          ELSE exception
    /\ UNCHANGED << config_code, route, request, req_validation_error,
                    resp_validation_error, handler_out, after_args, returned >>
    /\ UNCHANGED << docVars, cfgVars, fnVars, raceVars >>

\* An abort that does not end the run: validate carries on to the after-hook
AbortFallingThrough ==
    /\ pc = "before_called"
    /\ req_validation_error # None
    /\ returned' = response
    /\ pc' = "response_validated"
    /\ UNCHANGED << config_code, route, request, response,
                    req_validation_error, resp_validation_error, handler_out,
                    log, before_args, after_args, exception >>
    /\ UNCHANGED << docVars, cfgVars, fnVars, raceVars >>

\* if req_validation_error: abort(response)
Abort ==
    /\ pc = "before_called"
    /\ req_validation_error # None
    /\ returned' = response
    /\ pc' = "aborted"
    /\ UNCHANGED << config_code, route, request, response,
                    req_validation_error, resp_validation_error, handler_out,
                    log, before_args, after_args, exception >>
    /\ UNCHANGED << docVars, cfgVars, fnVars, raceVars >>

HandlerOutputs ==
    [status : HandlerStatuses, body : {HandlerBody(b) : b \in HandlerBodies},
     headers : {{}}]

\* A handler that runs although the before-hook has not been called
CallHandlerUnguarded ==
    /\ pc \in {"validated", "before_called"}
    /\ \E out \in HandlerOutputs :
          /\ handler_out' = out
          /\ response' = out
          /\ pc' = "handler_returned"
    /\ UNCHANGED exception
    /\ log' = Append(log, Event("handler", "func"))
    /\ UNCHANGED << config_code, route, request, req_validation_error,
                    resp_validation_error, before_args, after_args, returned >>
    /\ UNCHANGED << docVars, cfgVars, fnVars, raceVars >>

\* response = make_response(func(*args, **kwargs)); a handler may also raise
CallHandler ==
    /\ pc = "before_called"
    /\ req_validation_error = None
    /\ \/ \E out \in HandlerOutputs :
             /\ handler_out' = out
             /\ response' = out
             /\ pc' = "handler_returned"
             /\ UNCHANGED exception
       \/ /\ pc' = "raised"
          /\ exception' = "handler_error"
          /\ UNCHANGED << handler_out, response >>
    /\ log' = Append(log, Event("handler", "func"))
    /\ UNCHANGED << config_code, route, request, req_validation_error,
                    resp_validation_error, before_args, after_args, returned >>
    /\ UNCHANGED << docVars, cfgVars, fnVars, raceVars >>

\* validate=False is not looked at
validation_applies_ignoring_flag(resp) ==
    IsGiven(resp) /\ has_model(resp)

\* if resp and resp.has_model() and getattr(resp, "validate", False)
validation_applies(resp) ==
    IsGiven(resp) /\ has_model(resp) /\ validate_enabled(resp)

\* The model whose ValidationError load_model_schema(model, response.get_json())
\* raises for the handler's response `out`, or None
response_validation(resp, out) ==
    IF validation_applies(resp)
    THEN LET model == find_model(resp, out.status) IN
         IF model # None /\ ~Conforms(model, out.body) THEN model ELSE None
    ELSE None

\* lines 222-229 of validate
ResponseValidation ==
    /\ pc = "handler_returned"
    /\ LET err == response_validation(route.resp, response) IN
          /\ resp_validation_error' = err
          /\ response' = IF err = None THEN response
                         ELSE ResponseValidationFailure
    /\ log' = Append(log, Event("response_validation", "backend"))
    /\ pc' = "response_validated"
    /\ UNCHANGED << config_code, route, request, req_validation_error,
                    handler_out, before_args, after_args, returned,
                    exception >>
    /\ UNCHANGED << docVars, cfgVars, fnVars, raceVars >>

\* after(request, response, resp_validation_error, None); return response
AfterHook ==
    /\ pc = "response_validated"
    /\ \E effect \in HookEffects :
          /\ after_args' = [called |-> TRUE, resp |-> response,
                            err |-> resp_validation_error]
          /\ log' = Append(log, Event("after", after_used(route)))
          /\ response' = HookResult(response, effect, "X-Validation")
          /\ IF effect = "raise"
             THEN /\ pc' = "raised"
                  /\ exception' = "after_hook_error"
                  /\ UNCHANGED returned
             ELSE /\ pc' = "done"
                  /\ returned' = response'
                  /\ UNCHANGED exception
    /\ UNCHANGED << config_code, route, request, req_validation_error,
                    resp_validation_error, handler_out, before_args >>
    /\ UNCHANGED << docVars, cfgVars, fnVars, raceVars >>

Next ==
    \/ Dispatch
    \/ RequestValidation
    \/ BeforeHook
    \/ Abort
    \/ CallHandler
    \/ ResponseValidation
    \/ AfterHook

----------------------------------------------------------------------------
(* Decoration, the model registry and the document (spec.py) *)

\* How many validate(...)(func) calls, add_url_rule calls and accesses of
\* the `spec` property one behaviour makes
MaxDecorations == 2
MaxRules == 2
MaxAccesses == 2
\* How many of these calls one behaviour makes in all
MaxCalls == 6
\* How many schema objects can be alive at once
HeapSize == 8

Modes == {"normal", "strict", "greedy"}
Handlers == {"h1", "h2"}

\* method.lower()
Lower(m) ==
    CASE m = "GET" -> "get"
      [] m = "POST" -> "post"
      [] m = "HEAD" -> "head"
      [] m = "OPTIONS" -> "options"

\* A rule's path, as the pieces of str(rule)
UserPath == << "/user" >>
DocPath == << "/apidoc", "/openapi.json" >>
Paths == {UserPath, DocPath}

\* f"/{self.config.PATH}" with the default PATH, and "/static"
OpenapiPath == << "/apidoc" >>
StaticPath == << "/static" >>

\* Model classes: RespV1 and RespV2 are two classes with one __name__, and
\* the schema of RespV2 has a nested model in its definitions bucket
NoClass == [name |-> None, variant |-> 0, definitions |-> {}]
QueryClass == [name |-> "Query", variant |-> 1, definitions |-> {}]
RespV1 == [name |-> "Resp", variant |-> 1, definitions |-> {}]
RespV2 == [name |-> "Resp", variant |-> 2, definitions |-> {"Sub"}]
NestedClass(n) == [name |-> n, variant |-> 1, definitions |-> {}]

\* self._get_open_api_schema(model.schema()): a new dict each time
Schema(cls) ==
    [title |-> cls.name, variant |-> cls.variant,
     definitions |-> cls.definitions]

\* A slot of the heap that holds no object
Free == [title |-> None, variant |-> 0, definitions |-> {}]
EmptyHeap == [i \in 1..HeapSize |-> Free]

Undecorated == [decorator |-> None, query |-> NoClass, resp |-> NoClass]

NoDocument == [paths |-> << >>, schemas |-> << >>]
NoCache == [cached |-> FALSE, doc |-> NoDocument]
NotDecorated == [count |-> 0, resp_given |-> FALSE, raised |-> FALSE]

DocIdle ==
    /\ mode = "normal"
    /\ attrs = [h \in Handlers |-> Undecorated]
    /\ rules = << >>
    /\ models = << >>
    /\ heap = EmptyHeap
    /\ spec_cache = NoCache
    /\ spec_returned = NoDocument
    /\ accesses = 0
    /\ first_value = NoDocument
    /\ gen_attrs = [h \in Handlers |-> Undecorated]
    /\ gen_rules = << >>
    /\ decorated = NotDecorated

\* FlaskPydanticSpec.__init__ of instance A with MODE given
InitDoc ==
    /\ mode \in Modes
    /\ attrs = [h \in Handlers |-> Undecorated]
    /\ rules = << >>
    /\ models = << >>
    /\ heap = EmptyHeap
    /\ spec_cache = NoCache
    /\ spec_returned = NoDocument
    /\ accesses = 0
    /\ first_value = NoDocument
    /\ gen_attrs = [h \in Handlers |-> Undecorated]
    /\ gen_rules = << >>
    /\ decorated = NotDecorated

\* The registry is a dict: its keys in insertion order, each with the schema
\* object it is bound to
HasKey(ms, n) == \E i \in DOMAIN ms : ms[i].name = n
KeyIndex(ms, n) == CHOOSE i \in DOMAIN ms : ms[i].name = n

\* self.models[name] = <object id>
SetItem(ms, n, id) ==
    IF HasKey(ms, n)
    THEN [ms EXCEPT ![KeyIndex(ms, n)] = [name |-> n, id |-> id]]
    ELSE Append(ms, [name |-> n, id |-> id])

\* The objects a registry and a document refer to
RegistryIds(ms) == {ms[i].id : i \in DOMAIN ms}
DocumentIds(doc) == {doc.schemas[n] : n \in DOMAIN doc.schemas}

\* A new object goes to the lowest slot that no live object occupies
Alloc(live) ==
    CHOOSE i \in 1..HeapSize :
        i \notin live /\ \A j \in 1..HeapSize : j \notin live => i <= j

\* Objects nothing refers to any more are collected
Sweep(hp, live) == [i \in DOMAIN hp |-> IF i \in live THEN hp[i] ELSE Free]

\* A registry that keeps the schema a name got first
RegisterKeepFirst(st, cls) ==
    IF HasKey(st.models, cls.name) THEN st
    ELSE LET id == Alloc(RegistryIds(st.models) \cup st.pinned)
         IN [st EXCEPT !.models = SetItem(st.models, cls.name, id),
                       !.heap[id] = Schema(cls)]

\* self.models[model.__name__] = self._get_open_api_schema(model.schema()):
\* the key is bound to a new dict; the dict it was bound to stays as it is
\* for whoever still refers to it (st.pinned: the objects documents refer to)
Register(st, cls) ==
    LET others == {st.models[i].id :
                      i \in {j \in DOMAIN st.models :
                                st.models[j].name # cls.name}}
        id == Alloc(others \cup st.pinned)
    IN [st EXCEPT !.models = SetItem(st.models, cls.name, id),
                  !.heap[id] = Schema(cls)]

\* The calls made so far on the application and on instance A
CallsMade == decorated.count + Len(rules) + accesses

\* The arguments of the validate(...) calls: nothing declared, a query and
\* a response model, and a response model alone
DecorateArgs ==
    {[inst |-> "A", query |-> NoClass, resp |-> NoClass],
     [inst |-> "A", query |-> QueryClass, resp |-> RespV1],
     [inst |-> "A", query |-> NoClass, resp |-> RespV2],
     [inst |-> "B", query |-> NoClass, resp |-> RespV1]}

\* A decoration that insists on a response descriptor
DecorationRaises(r) == FALSE

\* validate(query=q, resp=Response(HTTP_200=r))(func) by instance inst; NoClass
\* stands for an argument left at None.  functools.wraps copies the
\* attributes func already has onto the wrapper, and the registration of an
\* instance other than A goes to that instance's own registry.  A handler
\* name stands for the view function the application routes to, so that
\* decorating it again stands for routing to the new wrapper.
Decorate ==
    /\ decorated.count < MaxDecorations
    /\ accesses < MaxAccesses
    /\ CallsMade < MaxCalls
    /\ \E h \in Handlers, args \in DecorateArgs :
          LET inst == args.inst
              q == args.query
              r == args.resp
              st0 == [models |-> models, heap |-> heap,
                      pinned |-> DocumentIds(spec_cache.doc)
                                 \cup DocumentIds(spec_returned)]
              st1 == IF q # NoClass /\ inst = "A" THEN Register(st0, q) ELSE st0
              st2 == IF r # NoClass /\ inst = "A" THEN Register(st1, r) ELSE st1
          IN
          /\ models' = st2.models
          /\ heap' = Sweep(st2.heap, RegistryIds(st2.models) \cup st2.pinned)
          /\ attrs' = [attrs EXCEPT ![h] =
                [decorator |-> inst,
                 query |-> IF q # NoClass THEN q ELSE @.query,
                 resp |-> IF r # NoClass THEN r ELSE @.resp]]
          /\ decorated' = [count |-> decorated.count + 1,
                           resp_given |-> r # NoClass,
                           raised |-> DecorationRaises(r)]
    /\ UNCHANGED << mode, rules, spec_cache, spec_returned, accesses,
                    first_value, gen_attrs, gen_rules >>
    /\ UNCHANGED << reqVars, cfgVars, fnVars, raceVars >>

\* The rules an application registers: its own routes, and the route that
\* serves the document
RuleChoices ==
    {[path |-> UserPath, methods |-> {"GET", "HEAD", "OPTIONS"},
      endpoint |-> "h1"],
     [path |-> UserPath, methods |-> {"GET", "HEAD", "OPTIONS"},
      endpoint |-> "h2"],
     [path |-> UserPath, methods |-> {"POST", "OPTIONS"}, endpoint |-> "h2"],
     [path |-> DocPath, methods |-> {"GET", "HEAD", "OPTIONS"},
      endpoint |-> "h1"]}

\* app.add_url_rule(path, view_func=h, methods=...)
AddRule ==
    /\ Len(rules) < MaxRules
    /\ accesses < MaxAccesses
    /\ CallsMade < MaxCalls
    /\ \E rule \in RuleChoices : rules' = Append(rules, rule)
    /\ UNCHANGED << mode, attrs, models, heap, spec_cache, spec_returned,
                    accesses, first_value, gen_attrs, gen_rules, decorated >>
    /\ UNCHANGED << reqVars, cfgVars, fnVars, raceVars >>

\* str(rule).startswith(prefix)
StartsWith(path, prefix) ==
    /\ Len(path) >= Len(prefix)
    /\ SubSeq(path, 1, Len(prefix)) = prefix

\* FlaskBackend.find_routes: the rules outside the documentation path and
\* the static path, in url_map order
find_routes(rs) ==
    SelectSeq(rs, LAMBDA rule : ~ \E prefix \in {OpenapiPath, StaticPath} :
                                     StartsWith(rule.path, prefix))

\* The OpenAPI form of one piece of a rule: <name> becomes {name}
Substitute(piece) == IF piece = "<name>" THEN "{name}" ELSE piece

\* FlaskBackend.parse_path: "".join(subs)
parse_path(path) == [i \in DOMAIN path |-> Substitute(path[i])]

\* A backend that compares the lower-case method names
backend_bypass_lowercase(method) == method \in {"head", "options"}

\* FlaskBackend.bypass
backend_bypass(method) == method \in {"HEAD", "OPTIONS"}

\* A strict mode that takes any decorated handler
bypass_any_decorator(func, md) ==
    CASE md = "greedy" -> FALSE
      [] md = "strict" -> func.decorator = None
      [] OTHER -> func.decorator # None /\ func.decorator # "A"

\* FlaskPydanticSpec.bypass of instance A: TRUE when the handler is left out
bypass(func, md) ==
    CASE md = "greedy" -> FALSE
      [] md = "strict" -> ~(func.decorator = "A")
      [] OTHER -> func.decorator # None /\ func.decorator # "A"

\* FlaskPydanticSpec.bypass_unpublish
bypass_unpublish(func, md) == IF md = "publish_only" THEN TRUE ELSE FALSE

\* The operation object of a handler: operationId comes from func.__name__
Operation(h) == [operationId |-> h]

EmptyMap == [x \in {} |-> 0]

\* routes[path][method.lower()] = {...} for the methods of the rule that
\* are not bypassed
RuleOperations(rule, at, md) ==
    LET included == {m \in rule.methods :
                        ~(backend_bypass(m) \/ bypass(at[rule.endpoint], md))
                        /\ ~bypass_unpublish(at[rule.endpoint], md)}
    IN [pm \in {<< parse_path(rule.path), Lower(m) >> : m \in included}
          |-> Operation(rule.endpoint)]

\* A walk that keeps the operation a path and method got first
RECURSIVE WalkRoutesFirstWins(_, _, _, _, _)
WalkRoutesFirstWins(rs, i, at, md, acc) ==
    IF i > Len(rs) THEN acc
    ELSE WalkRoutesFirstWins(rs, i + 1, at, md,
                             acc @@ RuleOperations(rs[i], at, md))

\* The loop of _generate_spec over the routes from position i on; a later
\* assignment to routes[path][method] replaces an earlier one
RECURSIVE WalkRoutes(_, _, _, _, _)
WalkRoutes(rs, i, at, md, acc) ==
    IF i > Len(rs) THEN acc
    ELSE WalkRoutes(rs, i + 1, at, md, RuleOperations(rs[i], at, md) @@ acc)

\* The loop over schema["definitions"].items(): each nested model becomes a
\* component of its own, a new sanitized dict
RECURSIVE Hoist(_, _, _, _)
Hoist(keys, defs, hp, live) ==
    IF keys = {} THEN [definitions |-> defs, heap |-> hp]
    ELSE LET k == CHOOSE x \in keys : TRUE
             kept == IF k \in DOMAIN defs
                     THEN {defs[n] : n \in DOMAIN defs \ {k}}
                     ELSE {defs[n] : n \in DOMAIN defs}
             id == Alloc(live \cup kept)
         IN Hoist(keys \ {k}, (k :> id) @@ defs,
                  [hp EXCEPT ![id] = Schema(NestedClass(k))], live)

\* FlaskPydanticSpec._get_model_definitions over self.models.items() from
\* position i on: the registered dict itself goes into the result, and its
\* definitions bucket is deleted from it after the nested models are hoisted
RECURSIVE GetModelDefinitions(_, _, _, _)
GetModelDefinitions(ms, i, defs, hp) ==
    IF i > Len(ms) THEN [definitions |-> defs, heap |-> hp]
    ELSE LET model == ms[i].name
             id == ms[i].id
             defs1 == IF model \in DOMAIN defs THEN defs
                      ELSE (model :> id) @@ defs
             hoisted == Hoist(hp[id].definitions, defs1, hp, RegistryIds(ms))
         IN GetModelDefinitions(ms, i + 1, hoisted.definitions,
                [hoisted.heap EXCEPT ![id].definitions = {}])

\* _generate_spec followed by _generate_spec_common: the document and the
\* heap the build leaves behind
GenerateSpec(rs, at, md, ms, hp) ==
    LET got == GetModelDefinitions(ms, 1, EmptyMap, hp)
    IN [doc |-> [paths |-> WalkRoutes(find_routes(rs), 1, at, md, EmptyMap),
                 schemas |-> got.definitions],
        heap |-> got.heap]

\* A document with the schema objects it refers to in place of their ids
DocValue(doc, hp) ==
    [paths |-> doc.paths,
     schemas |-> [n \in DOMAIN doc.schemas |-> hp[doc.schemas[n]]]]

\* A property that builds the document on every access
always_generate(cache) == TRUE

\* if not hasattr(self, "_spec")
needs_generation(cache) == ~cache.cached

\* The `spec` property of instance A
AccessSpec ==
    /\ accesses < MaxAccesses
    /\ CallsMade < MaxCalls
    /\ IF needs_generation(spec_cache)
       THEN LET gen == GenerateSpec(rules, attrs, mode, models, heap) IN
            /\ spec_cache' = [cached |-> TRUE, doc |-> gen.doc]
            /\ heap' = Sweep(gen.heap, RegistryIds(models)
                                        \cup DocumentIds(gen.doc))
            /\ gen_attrs' = attrs
            /\ gen_rules' = rules
       ELSE UNCHANGED << spec_cache, heap, gen_attrs, gen_rules >>
    /\ spec_returned' = spec_cache'.doc
    /\ accesses' = accesses + 1
    /\ first_value' = IF accesses = 0
                      THEN DocValue(spec_cache'.doc, heap')
                      ELSE first_value
    /\ UNCHANGED << mode, attrs, rules, models, decorated >>
    /\ UNCHANGED << reqVars, cfgVars, fnVars, raceVars >>

NextDoc ==
    \/ Decorate
    \/ AddRule
    \/ AccessSpec

\* No request is in flight while the document part runs
RequestIdle ==
    /\ config_code = DefaultValidationErrorCode
    /\ route = [query |-> FALSE, body |-> None, headers |-> FALSE,
                cookies |-> FALSE,
                resp |-> [kind |-> None, code_models |-> NoModels,
                          validate |-> FALSE],
                before |-> FALSE, after |-> FALSE]
    /\ pc = "idle"
    /\ request = NoRequest
    /\ response = NoResponse
    /\ req_validation_error = None
    /\ resp_validation_error = None
    /\ handler_out = NoResponse
    /\ log = << >>
    /\ before_args = NoArgs
    /\ after_args = NoArgs
    /\ returned = NoResponse
    /\ exception = None

-----------------------------------------------------------------------------
(* Config *)

\* How many keyword arguments one call carries
MaxKwargs == 2

\* The attributes Config.__init__ sets that the checks of update read, and
\* PATH as one of the others
AttrNames == {"PATH", "UI", "_SUPPORT_UI", "MODE", "_SUPPORT_MODE"}

\* Config.__init__, before self.update(**kwargs)
Defaults ==
    [PATH |-> {"apidoc"},
     UI |-> {"redoc"},
     _SUPPORT_UI |-> {"redoc", "swagger"},
     MODE |-> {"normal"},
     _SUPPORT_MODE |-> {"normal", "strict", "greedy"}]

\* A string attribute is held as the set of its one value, so that every
\* attribute is a set
Str(v) == {v}

\* key.upper()
Upper(key) ==
    CASE key \in {"ui", "UI", "Ui"} -> "UI"
      [] key \in {"mode", "MODE"} -> "MODE"
      [] key \in {"path", "PATH"} -> "PATH"
      [] key = "_support_ui" -> "_SUPPORT_UI"
      [] key = "_support_mode" -> "_SUPPORT_MODE"
      [] key = "colour" -> "COLOUR"

\* The keyword arguments a caller passes
KwargChoices ==
    {[key |-> "ui", value |-> Str("swagger")],
     [key |-> "Ui", value |-> Str("redoc")],
     [key |-> "UI", value |-> Str("foo")],
     [key |-> "mode", value |-> Str("strict")],
     [key |-> "MODE", value |-> Str("bar")],
     [key |-> "path", value |-> Str("docs")],
     [key |-> "_support_ui", value |-> {"foo"}],
     [key |-> "_support_mode", value |-> {"bar"}],
     [key |-> "colour", value |-> Str("red")]}

\* **kwargs: a dict, so no key twice
Kwargs ==
    {kw \in UNION {[1..n -> KwargChoices] : n \in 0..MaxKwargs} :
        \A i, j \in DOMAIN kw : kw[i].key = kw[j].key => i = j}

\* hasattr(self, key)
hasattr(cfg, key) == key \in DOMAIN cfg

\* setattr(self, key, value)
setattr(cfg, key, value) == [cfg EXCEPT ![key] = value]

\* The loop of Config.update over kwargs.items() from position i on
RECURSIVE ApplyKwargs(_, _, _)
ApplyKwargs(cfg, kw, i) ==
    IF i > Len(kw) THEN cfg
    ELSE LET key == Upper(kw[i].key)
         IN ApplyKwargs(IF ~hasattr(cfg, key) THEN cfg
                        ELSE setattr(cfg, key, kw[i].value),
                        kw, i + 1)

\* assert self.UI in self._SUPPORT_UI; assert self.MODE in self._SUPPORT_MODE
AssertsPass(cfg) ==
    /\ cfg.UI \subseteq cfg._SUPPORT_UI
    /\ cfg.MODE \subseteq cfg._SUPPORT_MODE

ConfigIdle ==
    /\ config_attrs = Defaults
    /\ config_call = "none"
    /\ config_kwargs = << >>
    /\ config_raised = FALSE

\* Config(**kwargs)
ConfigInit ==
    /\ config_call = "none"
    /\ \E kw \in Kwargs :
          /\ config_kwargs' = kw
          /\ config_attrs' = ApplyKwargs(Defaults, kw, 1)
    /\ config_call' = "init"
    /\ config_raised' = ~AssertsPass(config_attrs')
    /\ UNCHANGED << reqVars, docVars, fnVars, raceVars >>

\* config.update(**kwargs) on an object whose construction completed
ConfigUpdate ==
    /\ config_call # "none"
    /\ ~(config_call = "init" /\ config_raised)
    /\ \E kw \in Kwargs :
          /\ config_kwargs' = kw
          /\ config_attrs' = ApplyKwargs(config_attrs, kw, 1)
    /\ config_call' = "update"
    /\ config_raised' = ~AssertsPass(config_attrs')
    /\ UNCHANGED << reqVars, docVars, fnVars, raceVars >>

NextConfig ==
    \/ ConfigInit
    \/ ConfigUpdate

-----------------------------------------------------------------------------
(* Single calls *)

\* No call made yet
Pending == [status |-> "pending"]
Returned(v) == [status |-> "returned", value |-> v]
Raised(exc) == [status |-> "raised", exc |-> exc]
\* A call that returned None
ReturnedNone == [status |-> "returned_none"]

FnIdle ==
    /\ fn_args = None
    /\ fn_result = Pending

\* No thread is reading the `spec` property
RaceIdle ==
    /\ registry = << >>
    /\ buckets = << >>
    /\ self_tags = << >>
    /\ self_spec = None
    /\ threads = << >>

\* Everything but the call under study stays as constructed
OthersIdle == RequestIdle /\ DocIdle /\ ConfigIdle /\ RaceIdle

-----------------------------------------------------------------------------
(* FlaskBackend.parse_path: the schema of a path variable *)

\* app.url_map.converters beyond the built-in ones, each with what
\* inspect.signature(converter_cls.to_python).return_annotation is: an Enum
\* class, another class, inspect.Signature.empty (no annotation; a class as
\* well), or an annotation that is not a class (Optional[...], or a string
\* under `from __future__ import annotations`)
CustomConverters ==
    [example |-> "Enum", plain |-> "class", bare |-> "empty",
     optional |-> "not_a_class"]

\* [e.value for e in return_type] of the Enum class
EnumValues == << "one", "two" >>

BuiltinConverters == {"any", "int", "float", "uuid", "path", "string", "default"}

\* A name no converter is registered under
UnknownConverters == {"unknown"}

\* parse_converter_args(arguments): positional and keyword arguments
NoKwargs == [k \in {} |-> 0]
KwargsOver(keys, values) ==
    UNION {[ks -> values] : ks \in SUBSET keys}

\* The variable tokens of a rule: (converter, args, kwargs, variable)
Tokens ==
    [converter : {"any"}, args : {<< "a", "b", "c" >>, << "x" >>},
     kwargs : {NoKwargs}, variable : {"example"}]
    \cup [converter : {"int"}, args : {<< >>},
          kwargs : KwargsOver({"min", "max"}, {1, 5}), variable : {"example"}]
    \cup [converter : {"string"}, args : {<< >>},
          kwargs : KwargsOver({"length", "maxlength", "minlength"}, {2, 5}),
          variable : {"example"}]
    \cup [converter : {"float", "uuid", "path", "default"}
                      \cup DOMAIN CustomConverters \cup UnknownConverters,
          args : {<< >>}, kwargs : {NoKwargs}, variable : {"example", "n"}]

\* schema[name] = kwargs[key] when the key is given
WithKwarg(schema, kwargs, key, name) ==
    IF key \in DOMAIN kwargs THEN (name :> kwargs[key]) @@ schema ELSE schema

\* A scalar of a schema is held as a one-element sequence and a number as
\* itself, so that values under one key are of one kind
Scalar(v) == << v >>

\* _parse_custom_url_converter: KeyError and AttributeError are caught, the
\* TypeError of issubclass(x, Enum) for an x that is not a class is not
_parse_custom_url_converter(converter) ==
    IF converter \notin DOMAIN CustomConverters THEN ReturnedNone
    ELSE CASE CustomConverters[converter] = "Enum" ->
                  Returned(("type" :> Scalar("string")) @@ ("enum" :> EnumValues))
           [] CustomConverters[converter] = "not_a_class" -> Raised("TypeError")
           [] OTHER -> ReturnedNone

\* The if/elif chain of parse_path over the converter name
PathSchema(token) ==
    CASE token.converter = "any" ->
            Returned(("type" :> Scalar("string")) @@ ("enum" :> token.args))
      [] token.converter = "int" ->
            Returned(WithKwarg(WithKwarg(
                ("type" :> Scalar("integer")) @@ ("format" :> Scalar("int32")),
                token.kwargs, "max", "maximum"), token.kwargs, "min", "minimum"))
      [] token.converter = "float" ->
            Returned(("type" :> Scalar("number")) @@ ("format" :> Scalar("float")))
      [] token.converter = "uuid" ->
            Returned(("type" :> Scalar("string")) @@ ("format" :> Scalar("uuid")))
      [] token.converter = "path" ->
            Returned(("type" :> Scalar("string")) @@ ("format" :> Scalar("path")))
      [] token.converter = "string" ->
            Returned(WithKwarg(WithKwarg(WithKwarg(
                ("type" :> Scalar("string")),
                token.kwargs, "length", "length"),
                token.kwargs, "maxlength", "maxLength"),
                token.kwargs, "minlength", "minLength"))
      [] token.converter = "default" -> Returned("type" :> Scalar("string"))
      [] OTHER ->
            LET custom == _parse_custom_url_converter(token.converter)
            IN IF custom = ReturnedNone
               THEN Returned("type" :> Scalar("string"))
               ELSE custom

\* parse_path of the rule "/convert/<token>": the path and the parameters
parse_path_rule(token) ==
    LET schema == PathSchema(token)
    IN IF schema.status = "raised" THEN schema
       ELSE Returned([path |-> << "/convert/", "{" \o token.variable \o "}" >>,
                      parameters |-> << [name |-> token.variable,
                                         in |-> "path",
                                         required |-> TRUE,
                                         schema |-> schema.value] >>])

PathStart ==
    /\ OthersIdle
    /\ fn_args \in Tokens
    /\ fn_result = Pending

\* self.backend.parse_path(route)
CallParsePath ==
    /\ fn_result = Pending
    /\ fn_result' = parse_path_rule(fn_args)
    /\ UNCHANGED << reqVars, docVars, cfgVars, fn_args, raceVars >>

NextPath == CallParsePath

-----------------------------------------------------------------------------
(* utils.parse_multi_dict and the json module it calls *)

\* A text is the sequence of its tokens; white space between tokens is
\* left out.  Python values are records of one shape.
PyValue(t, n, b, s, items) == [t |-> t, n |-> n, b |-> b, s |-> s, items |-> items]
JInt(n) == PyValue("int", n, FALSE, << >>, << >>)
JBool(b) == PyValue("bool", 0, b, << >>, << >>)
JNone == PyValue("None", 0, FALSE, << >>, << >>)
\* float("nan"), float("inf"), float("-inf")
JFloat(name) == PyValue("float", 0, FALSE, << name >>, << >>)
\* A str: the text it holds
JStr(text) == PyValue("str", 0, FALSE, text, << >>)
\* A dict, as its items in order, and a list
JObj(items) == PyValue("dict", 0, FALSE, << >>, items)
JList(items) == PyValue("list", 0, FALSE, << >>, items)
Item(key, val) == [key |-> key, val |-> val]

\* Number tokens and the integers they denote; string tokens and their content
IntOf == ("0" :> 0) @@ ("7" :> 7) @@ ("-1" :> -1)
Unquote == ("\"a\"" :> "a") @@ ("\"b\"" :> "b")
NumberToken(n) == CHOOSE tok \in DOMAIN IntOf : IntOf[tok] = n
Quote(s) == CHOOSE tok \in DOMAIN Unquote : Unquote[tok] = s

\* How deep containers may nest before the decoder's recursion guard trips
\* (the interpreter's recursion limit, scaled down)
RecursionLimit == 3

\* json.loads as Python has it: NaN and Infinity are accepted, nesting is limited
PythonJson == [constants |-> TRUE, limit |-> RecursionLimit]

ScanFail(exc) == [ok |-> FALSE, exc |-> exc, value |-> JNone, next |-> 0]
ScanOk(v, next) == [ok |-> TRUE, exc |-> "", value |-> v, next |-> next]

\* The decoder's scan of one value starting at token pos
RECURSIVE Scan(_, _, _, _)
RECURSIVE ScanObject(_, _, _, _, _)
RECURSIVE ScanArray(_, _, _, _, _)
Scan(text, pos, depth, dialect) ==
    IF pos > Len(text) THEN ScanFail("JSONDecodeError")
    ELSE LET tok == text[pos] IN
         CASE tok \in DOMAIN IntOf -> ScanOk(JInt(IntOf[tok]), pos + 1)
           [] tok = "true" -> ScanOk(JBool(TRUE), pos + 1)
           [] tok = "false" -> ScanOk(JBool(FALSE), pos + 1)
           [] tok = "null" -> ScanOk(JNone, pos + 1)
           [] tok \in {"NaN", "Infinity", "-Infinity"} ->
                 IF dialect.constants THEN ScanOk(JFloat(tok), pos + 1)
                 ELSE ScanFail("JSONDecodeError")
           [] tok \in DOMAIN Unquote -> ScanOk(JStr(<< Unquote[tok] >>), pos + 1)
           [] tok \in {"{", "["} ->
                 IF depth + 1 > dialect.limit THEN ScanFail("RecursionError")
                 ELSE IF tok = "{"
                      THEN ScanObject(text, pos + 1, depth + 1, dialect, << >>)
                      ELSE ScanArray(text, pos + 1, depth + 1, dialect, << >>)
           [] OTHER -> ScanFail("JSONDecodeError")

\* The members of an object, after "{" or after a comma
ScanObject(text, pos, depth, dialect, acc) ==
    IF pos > Len(text) THEN ScanFail("JSONDecodeError")
    ELSE IF text[pos] = "}" /\ acc = << >> THEN ScanOk(JObj(acc), pos + 1)
    ELSE IF \/ text[pos] \notin DOMAIN Unquote
            \/ pos + 1 > Len(text)
            \/ text[pos + 1] # ":"
         THEN ScanFail("JSONDecodeError")
    ELSE LET r == Scan(text, pos + 2, depth, dialect)
             acc2 == Append(acc, Item(Unquote[text[pos]], r.value))
         IN IF ~r.ok THEN r
            ELSE IF r.next > Len(text) THEN ScanFail("JSONDecodeError")
            ELSE IF text[r.next] = "}" THEN ScanOk(JObj(acc2), r.next + 1)
            ELSE IF text[r.next] = ","
                 THEN ScanObject(text, r.next + 1, depth, dialect, acc2)
            ELSE ScanFail("JSONDecodeError")

\* The elements of an array, after "[" or after a comma
ScanArray(text, pos, depth, dialect, acc) ==
    IF pos > Len(text) THEN ScanFail("JSONDecodeError")
    ELSE IF text[pos] = "]" /\ acc = << >> THEN ScanOk(JList(acc), pos + 1)
    ELSE LET r == Scan(text, pos, depth, dialect)
             acc2 == Append(acc, Item("", r.value))
         IN IF ~r.ok THEN r
            ELSE IF r.next > Len(text) THEN ScanFail("JSONDecodeError")
            ELSE IF text[r.next] = "]" THEN ScanOk(JList(acc2), r.next + 1)
            ELSE IF text[r.next] = ","
                 THEN ScanArray(text, r.next + 1, depth, dialect, acc2)
            ELSE ScanFail("JSONDecodeError")

\* json.loads(text): one value and nothing after it
loads(text, dialect) ==
    LET r == Scan(text, 1, 0, dialect)
    IN IF r.ok /\ r.next <= Len(text) THEN ScanFail("JSONDecodeError") ELSE r

\* json.dumps(v) of an int, a bool, a str of one word or a dict of these
RECURSIVE dumps(_)
RECURSIVE dumps_items(_, _)
dumps(v) ==
    CASE v.t = "int" -> << NumberToken(v.n) >>
      [] v.t = "bool" -> << IF v.b THEN "true" ELSE "false" >>
      [] v.t = "str" -> << Quote(v.s[1]) >>
      [] v.t = "dict" -> << "{" >> \o dumps_items(v.items, 1) \o << "}" >>
dumps_items(items, i) ==
    IF i > Len(items) THEN << >>
    ELSE << Quote(items[i].key), ":" >> \o dumps(items[i].val)
         \o (IF i < Len(items) THEN << "," >> ELSE << >>)
         \o dumps_items(items, i + 1)

\* The integers, booleans and nested objects a client encodes
EncodedValues ==
    {JInt(0), JInt(7), JInt(-1), JBool(TRUE), JBool(FALSE),
     JObj(<< >>),
     JObj(<< Item("a", JInt(7)) >>),
     JObj(<< Item("a", JBool(FALSE)), Item("b", JInt(-1)) >>),
     JObj(<< Item("a", JObj(<< Item("b", JInt(0)) >>)) >>),
     JObj(<< Item("a", JObj(<< Item("b", JObj(<< Item("a", JBool(TRUE)) >>)) >>)) >>)}

\* RecursionLimit + 1 opening brackets
RECURSIVE Brackets(_)
Brackets(n) == IF n = 0 THEN << >> ELSE << "[" >> \o Brackets(n - 1)

\* Query values a client sends as they are
PlainTexts ==
    {<< "abc" >>, << "True" >>, << "NaN" >>, << "Infinity" >>,
     << "{", "\"a\"", ":" >>, << "7", "7" >>, << "[", "7", ",", "]" >>,
     Brackets(RecursionLimit + 1)}

QueryTexts == {dumps(v) : v \in EncodedValues} \cup PlainTexts

\* request.args.to_dict(flat=False): each key with the list of its values
MultiDicts ==
    {("q" :> vs) : vs \in {<< t >> : t \in QueryTexts}
                          \cup {<< t, u >> : t \in PlainTexts, u \in PlainTexts}}

\* The try/except around json.loads(value[0])
DecodeOne(text) ==
    LET r == loads(text, PythonJson)
    IN IF r.ok THEN Returned(r.value)
       ELSE IF r.exc = "JSONDecodeError" THEN Returned(JStr(text))
       ELSE Raised(r.exc)

\* The value parse_multi_dict stores under one key
ValueToUse(values) ==
    IF Len(values) = 1 THEN DecodeOne(values[1])
    ELSE Returned(JList([i \in DOMAIN values |-> Item("", JStr(values[i]))]))

parse_multi_dict(input) ==
    IF \E k \in DOMAIN input : ValueToUse(input[k]).status = "raised"
    THEN ValueToUse(input[CHOOSE k \in DOMAIN input :
                             ValueToUse(input[k]).status = "raised"])
    ELSE Returned([k \in DOMAIN input |-> ValueToUse(input[k]).value])

MultiDictStart ==
    /\ OthersIdle
    /\ fn_args \in MultiDicts
    /\ fn_result = Pending

\* parse_multi_dict(raw_query)
CallParseMultiDict ==
    /\ fn_result = Pending
    /\ fn_result' = parse_multi_dict(fn_args)
    /\ UNCHANGED << reqVars, docVars, cfgVars, fn_args, raceVars >>

NextMultiDict == CallParseMultiDict

-----------------------------------------------------------------------------
(* FlaskBackend.request_validation: the body of an application/json request *)

\* The bodies a client sends
BodyTexts ==
    QueryTexts
    \cup {<< >>, << "null" >>, << "[", "]" >>, << "\"a\"" >>,
          << "[", "7", "]" >>, << "-Infinity" >>, << "}" >>,
          << "[", "{", "}", "]" >>}

\* gzip.compress and gzip.decompress: the compressed stream starts with the
\* gzip magic number
GzipMagic == "1f8b"
compress(text) == << GzipMagic >> \o text
decompress(data) ==
    IF data # << >> /\ Head(data) = GzipMagic THEN Returned(Tail(data))
    ELSE Raised("BadGzipFile")

\* bool(v)
Truthy(v) ==
    CASE v.t = "int" -> v.n # 0
      [] v.t = "bool" -> v.b
      [] v.t = "None" -> FALSE
      [] v.t = "str" -> v.s # << >> /\ v.s # << "" >>
      [] v.t \in {"dict", "list"} -> v.items # << >>
      [] OTHER -> TRUE

\* request.get_json(silent=True): None when the body does not parse
get_json_silent(data) ==
    LET r == loads(data, PythonJson)
    IN IF r.ok THEN Returned(r.value)
       ELSE IF r.exc = "JSONDecodeError" THEN Returned(JNone)
       ELSE Raised(r.exc)

\* parsed_body = request.get_json(silent=True) or {}
ParsedBodyPlain(data) ==
    LET r == get_json_silent(data)
    IN IF r.status = "returned" /\ ~Truthy(r.value) THEN Returned(JObj(<< >>))
       ELSE r

\* raw_body = gzip.decompress(request.stream.read()).decode(encoding="utf-8")
\* parsed_body = json.loads(raw_body)
ParsedBodyGzip(data) ==
    LET raw == decompress(data)
        r == loads(raw.value, PythonJson)
    IN IF raw.status = "raised" THEN raw
       ELSE IF r.ok THEN Returned(r.value)
       ELSE Raised(r.exc)

\* The branch of request_validation on request.content_encoding
ParsedBody(req) ==
    IF req.content_encoding = "gzip" THEN ParsedBodyGzip(req.data)
    ELSE ParsedBodyPlain(req.data)

BodyStart ==
    /\ OthersIdle
    /\ fn_args \in BodyTexts
    /\ fn_result = [plain |-> Pending, gzip |-> Pending]

\* The body sent as it is
SendPlain ==
    /\ fn_result.plain = Pending
    /\ fn_result' = [fn_result EXCEPT !.plain =
           ParsedBody([content_encoding |-> None, data |-> fn_args])]
    /\ UNCHANGED << reqVars, docVars, cfgVars, fn_args, raceVars >>

\* The same body sent compressed with content-encoding: gzip
SendGzip ==
    /\ fn_result.gzip = Pending
    /\ fn_result' = [fn_result EXCEPT !.gzip =
           ParsedBody([content_encoding |-> "gzip", data |-> compress(fn_args)])]
    /\ UNCHANGED << reqVars, docVars, cfgVars, fn_args, raceVars >>

NextBody ==
    \/ SendPlain
    \/ SendGzip

-----------------------------------------------------------------------------
(* utils.parse_resp: the responses of an operation *)

\* DEFAULT_CODE_DESC
DEFAULT_CODE_DESC ==
    (200 :> "OK") @@ (400 :> "Bad Request") @@ (404 :> "Not Found")
    @@ (422 :> "Unprocessable Entity")

\* The status codes a response descriptor is declared with here
DeclaredCodes == {200, 400, 422}

NoCodeModels == [c \in {} |-> None]

\* resp=None, FileResponse(), and Response(*codes, **code_models): the codes
\* given without a model and the codes given with one
NoResp == [kind |-> None, codes |-> {}, code_models |-> NoCodeModels]
FileResp == [kind |-> "FileResponse", codes |-> {}, code_models |-> NoCodeModels]
ResponseDescriptors ==
    {[kind |-> "Response", codes |-> cs, code_models |-> [c \in ms |-> "DemoModel"]] :
        cs \in SUBSET DeclaredCodes, ms \in SUBSET DeclaredCodes}

\* What validate(...) leaves on the function: setattr(validation, name, model)
\* for each slot given, and setattr(validation, "resp", resp) `if resp`
DecoratedFuncs ==
    [slots : SUBSET SlotNames,
     resp : {NoResp, FileResp} \cup ResponseDescriptors]

\* An entry of the responses object
ResponseEntry(description, content) ==
    [description |-> description, content |-> content]

\* Response.generate_spec / FileResponse.generate_spec: the entries of
\* self.codes first, then those of self.code_models over them
generate_spec(resp) ==
    CASE resp.kind = "FileResponse" ->
            (200 :> ResponseEntry(DEFAULT_CODE_DESC[200], "binary"))
            @@ (404 :> ResponseEntry(DEFAULT_CODE_DESC[404], None))
      [] resp.kind = "Response" ->
            [c \in resp.codes \cup DOMAIN resp.code_models |->
                IF c \in DOMAIN resp.code_models
                THEN ResponseEntry(DEFAULT_CODE_DESC[c], resp.code_models[c])
                ELSE ResponseEntry(DEFAULT_CODE_DESC[c], None)]
      [] OTHER -> [c \in {} |-> ResponseEntry(None, None)]

\* Response.has_model (True if self.code_models) / FileResponse.has_model
descriptor_has_model(resp) ==
    resp.kind = "Response" /\ DOMAIN resp.code_models # {}

\* utils.has_model: any(hasattr(func, x) for x in ("query", "json", "headers"))
func_has_model(func) ==
    \/ \E x \in {"query", "json", "headers"} : x \in func.slots
    \/ func.resp.kind # None /\ descriptor_has_model(func.resp)

ValidationErrorEntry == ResponseEntry("Validation Error", None)

\* utils.parse_resp(func, code)
parse_resp(func, code) ==
    LET responses == IF func.resp.kind # None THEN generate_spec(func.resp)
                     ELSE [c \in {} |-> ResponseEntry(None, None)]
    IN IF code \notin DOMAIN responses /\ func_has_model(func)
       THEN (code :> ValidationErrorEntry) @@ responses
       ELSE responses

RespStart ==
    /\ OthersIdle
    /\ fn_args \in [func : DecoratedFuncs, code : ValidationErrorCodes]
    /\ fn_result = Pending

\* parse_resp(func, self.config.VALIDATION_ERROR_CODE)
CallParseResp ==
    /\ fn_result = Pending
    /\ fn_result' = Returned(parse_resp(fn_args.func, fn_args.code))
    /\ UNCHANGED << reqVars, docVars, cfgVars, fn_args, raceVars >>

NextResp == CallParseResp

-----------------------------------------------------------------------------
(* _generate_spec: the tags of the document *)

\* An entry of the tags list; {"name": tag} has no description
TagEntry(name, description) == [name |-> name, description |-> description]

\* config.TAGS as a caller gives it
TagConfigs == {<< >>, << TagEntry("alpha", "the alpha api") >>}

\* tags=[...] of validate(...)
TagLists == {<< >>, << "zeta" >>, << "alpha" >>, << "zeta", "alpha" >>}

\* The view functions: who decorated them, and with which tags
TaggedFuncs == [decorator : {"A", "B"}, tags : TagLists]

\* tag_lookup = {tag["name"]: tag for tag in self.config.TAGS}
tag_lookup(TAGS) ==
    [n \in {TAGS[i].name : i \in DOMAIN TAGS} |->
        TAGS[CHOOSE i \in DOMAIN TAGS :
                 TAGS[i].name = n /\ \A j \in DOMAIN TAGS : TAGS[j].name = n => j <= i]]

\* for tag in func_tags: if tag not in self.tags: self.tags[tag] = ...
\* self.tags is a dict: the entries in insertion order
RECURSIVE AddTags(_, _, _, _)
AddTags(func_tags, i, lookup, tags) ==
    IF i > Len(func_tags) THEN tags
    ELSE LET tag == func_tags[i]
             entry == IF tag \in DOMAIN lookup THEN lookup[tag]
                      ELSE TagEntry(tag, None)
         IN AddTags(func_tags, i + 1, lookup,
                    IF \E j \in DOMAIN tags : tags[j].name = tag THEN tags
                    ELSE Append(tags, entry))

\* Whether the loop over the methods of a rule reaches the tags for some method
ReachesTags(rule, at, md) ==
    \E m \in rule.methods : ~(backend_bypass(m) \/ bypass(at[rule.endpoint], md))

\* The loop of _generate_spec over the routes from position i on, for
\* self.tags
RECURSIVE CollectTags(_, _, _, _, _, _)
CollectTags(rs, i, at, md, lookup, tags) ==
    IF i > Len(rs) THEN tags
    ELSE CollectTags(rs, i + 1, at, md, lookup,
            IF ReachesTags(rs[i], at, md)
            THEN AddTags(at[rs[i].endpoint].tags, 1, lookup, tags)
            ELSE tags)

\* "tags": list(self.tags.values()) of the document
DocumentTags(args) ==
    CollectTags(find_routes(args.rules), 1, args.attrs, args.mode,
                tag_lookup(args.TAGS), << >>)

\* The rules of an application, as app.url_map.iter_rules() gives them
RuleSequences == UNION {[1..n -> RuleChoices] : n \in 0..MaxRules}

TagsStart ==
    /\ OthersIdle
    /\ fn_args \in [rules : RuleSequences, attrs : [Handlers -> TaggedFuncs],
                    mode : Modes, TAGS : TagConfigs]
    /\ fn_result = Pending

\* _generate_spec, as far as the tags of the document go
CallGenerateTags ==
    /\ fn_result = Pending
    /\ fn_result' = Returned(DocumentTags(fn_args))
    /\ UNCHANGED << reqVars, docVars, cfgVars, fn_args, raceVars >>

NextTags == CallGenerateTags

-----------------------------------------------------------------------------
(* The parameters of the operations of one route (spec.py 336-353) *)

Param(name, place) == [name |-> name, in |-> place]

\* The second element of parse_path(route): one entry per path variable
PathParameterLists == {<< >>, << Param("name", "path") >>}

\* The view function of the route: who decorated it and which of query,
\* headers and cookies it declares (each model has one property)
ParamFuncs ==
    [decorator : {"A", "B"}, query : BOOLEAN, headers : BOOLEAN,
     cookies : BOOLEAN]

\* The parameters the handler's own models contribute
OwnParameters(func) ==
    (IF func.query THEN << Param("uid", "query") >> ELSE << >>)
    \o (IF func.headers THEN << Param("lang", "header") >> ELSE << >>)
    \o (IF func.cookies THEN << Param("pub", "cookie") >> ELSE << >>)

\* parse_params(func, params, models): params followed by the handler's
\* query, header and cookie parameters
parse_params(func, params) == params \o OwnParameters(func)

\* route.methods in the orders the loop of parse_func can yield them
RouteMethods == {"GET", "POST", "HEAD"}
MethodOrders ==
    {ms \in UNION {[1..n -> RouteMethods] : n \in 1..Cardinality(RouteMethods)} :
        \A i, j \in DOMAIN ms : ms[i] = ms[j] => i = j}

\* for method, func in parse_func(route): ...
\*     parameters = parse_params(func, parameters[:], self.models)
\* The name `parameters` is bound before the loop and bound again in it:
\* the next method starts from what the one before was given.
RECURSIVE MethodLoop(_, _, _, _, _, _)
MethodLoop(methods, i, func, md, parameters, acc) ==
    IF i > Len(methods) THEN acc
    ELSE IF backend_bypass(methods[i]) \/ bypass(func, md)
         THEN MethodLoop(methods, i + 1, func, md, parameters, acc)
         ELSE LET bound == parse_params(func, parameters)
              IN MethodLoop(methods, i + 1, func, md, bound,
                            (Lower(methods[i]) :> bound) @@ acc)

\* routes[path][method.lower()]["parameters"] for the methods of one route
OperationParameters(args) ==
    MethodLoop(args.methods, 1, args.func, args.mode, args.parameters,
               EmptyMap)

ParamsStart ==
    /\ OthersIdle
    /\ fn_args \in [parameters : PathParameterLists, methods : MethodOrders,
                    func : ParamFuncs, mode : Modes]
    /\ fn_result = Pending

\* _generate_spec on one route, as far as the parameters go
CallGenerateParameters ==
    /\ fn_result = Pending
    /\ fn_result' = Returned(OperationParameters(fn_args))
    /\ UNCHANGED << reqVars, docVars, cfgVars, fn_args, raceVars >>

NextParams == CallGenerateParameters

-----------------------------------------------------------------------------
(* Two threads reading the `spec` property of one instance (spec.py 101-108) *)

Threads == {"t1", "t2"}

\* The route table and the decorations the threads find: one route whose
\* handler instance A decorated with tags=["zeta", "alpha"]
RaceRules ==
    << [path |-> UserPath, methods |-> {"GET", "HEAD", "OPTIONS"},
        endpoint |-> "h1"] >>
RaceAttrs == [h \in Handlers |-> [decorator |-> "A", tags |-> << "zeta", "alpha" >>]]

\* self.models as the decorations left it: the keys in insertion order
Registries ==
    {<< QueryClass >>, << RespV2 >>, << QueryClass, RespV2 >>,
     << RespV2, QueryClass >>, << QueryClass, RespV1 >>}

\* The "definitions" bucket of a registered schema dict: pydantic emits the
\* key only for a model with nested models
Bucket(cls) == [present |-> cls.definitions # {}, keys |-> cls.definitions]
Buckets(reg) ==
    [n \in {reg[i].name : i \in DOMAIN reg} |->
        Bucket(reg[CHOOSE i \in DOMAIN reg : reg[i].name = n])]

RaceNoDocument == [paths |-> EmptyMap, tags |-> << >>, schemas |-> {}]
RaceNoSpec == [cached |-> FALSE, doc |-> RaceNoDocument]

\* A thread that has not yet touched the property
ThreadStart ==
    [pc |-> "start", i |-> 0, tags |-> << >>, definitions |-> {},
     built |-> RaceNoDocument, got |-> RaceNoDocument, exc |-> None]

RaceStart ==
    /\ RequestIdle /\ DocIdle /\ ConfigIdle /\ FnIdle
    /\ registry \in Registries
    /\ buckets = Buckets(registry)
    /\ self_tags = << >>
    /\ self_spec = RaceNoSpec
    /\ threads = [t \in Threads |-> ThreadStart]

\* if not hasattr(self, "_spec")
CheckCache(t) ==
    /\ threads[t].pc = "start"
    /\ threads' = [threads EXCEPT ![t].pc =
                       IF needs_generation(self_spec) THEN "walk" ELSE "return"]
    /\ UNCHANGED << registry, buckets, self_tags, self_spec >>
    /\ UNCHANGED << reqVars, docVars, cfgVars, fnVars >>

\* The loop of _generate_spec over the routes, which fills self.tags, and
\* "tags": list(self.tags.values()) of _generate_spec_common
WalkAndTags(t) ==
    /\ threads[t].pc = "walk"
    /\ self_tags' = CollectTags(find_routes(RaceRules), 1, RaceAttrs, "normal",
                                tag_lookup(<< >>), self_tags)
    /\ threads' = [threads EXCEPT ![t].pc = "models", ![t].i = 1,
                                  ![t].tags = self_tags']
    /\ UNCHANGED << registry, buckets, self_spec >>
    /\ UNCHANGED << reqVars, docVars, cfgVars, fnVars >>

\* for model, schema in models.items(): definitions[model] = schema;
\* if "definitions" in schema
TakeModel(t) ==
    /\ threads[t].pc = "models"
    /\ threads[t].i <= Len(registry)
    /\ LET model == registry[threads[t].i].name IN
       threads' = [threads EXCEPT
                      ![t].definitions = @ \cup {model},
                      ![t].pc = IF buckets[model].present THEN "hoist" ELSE "models",
                      ![t].i = IF buckets[model].present THEN @ ELSE @ + 1]
    /\ UNCHANGED << registry, buckets, self_tags, self_spec >>
    /\ UNCHANGED << reqVars, docVars, cfgVars, fnVars >>

\* for key, value in schema["definitions"].items(): definitions[key] = ...
\* The subscript raises KeyError when the key has gone since the test.
HoistDefinitions(t) ==
    /\ threads[t].pc = "hoist"
    /\ LET model == registry[threads[t].i].name IN
       threads' = IF buckets[model].present
                  THEN [threads EXCEPT
                           ![t].definitions = @ \cup buckets[model].keys,
                           ![t].pc = "delete"]
                  ELSE [threads EXCEPT ![t].pc = "raised",
                                       ![t].exc = "KeyError"]
    /\ UNCHANGED << registry, buckets, self_tags, self_spec >>
    /\ UNCHANGED << reqVars, docVars, cfgVars, fnVars >>

\* del schema["definitions"]: KeyError when the key has gone
DeleteDefinitions(t) ==
    /\ threads[t].pc = "delete"
    /\ LET model == registry[threads[t].i].name IN
       IF buckets[model].present
       THEN /\ buckets' = [buckets EXCEPT ![model].present = FALSE]
            /\ threads' = [threads EXCEPT ![t].pc = "models", ![t].i = @ + 1]
       ELSE /\ threads' = [threads EXCEPT ![t].pc = "raised",
                                          ![t].exc = "KeyError"]
            /\ UNCHANGED buckets
    /\ UNCHANGED << registry, self_tags, self_spec >>
    /\ UNCHANGED << reqVars, docVars, cfgVars, fnVars >>

\* return definitions, and the dict _generate_spec_common returns
Assemble(t) ==
    /\ threads[t].pc = "models"
    /\ threads[t].i > Len(registry)
    /\ threads' = [threads EXCEPT
                      ![t].built =
                          [paths |-> WalkRoutes(find_routes(RaceRules), 1,
                                                RaceAttrs, "normal", EmptyMap),
                           tags |-> threads[t].tags,
                           schemas |-> threads[t].definitions],
                      ![t].pc = "store"]
    /\ UNCHANGED << registry, buckets, self_tags, self_spec >>
    /\ UNCHANGED << reqVars, docVars, cfgVars, fnVars >>

\* self._spec = self._generate_spec()
StoreSpec(t) ==
    /\ threads[t].pc = "store"
    /\ self_spec' = [cached |-> TRUE, doc |-> threads[t].built]
    /\ threads' = [threads EXCEPT ![t].pc = "return"]
    /\ UNCHANGED << registry, buckets, self_tags >>
    /\ UNCHANGED << reqVars, docVars, cfgVars, fnVars >>

\* return self._spec
ReturnSpec(t) ==
    /\ threads[t].pc = "return"
    /\ threads' = [threads EXCEPT ![t].got = self_spec.doc, ![t].pc = "done"]
    /\ UNCHANGED << registry, buckets, self_tags, self_spec >>
    /\ UNCHANGED << reqVars, docVars, cfgVars, fnVars >>

NextRace ==
    \E t \in Threads :
        \/ CheckCache(t)
        \/ WalkAndTags(t)
        \/ TakeModel(t)
        \/ HoistDefinitions(t)
        \/ DeleteDefinitions(t)
        \/ Assemble(t)
        \/ StoreSpec(t)
        \/ ReturnSpec(t)

-----------------------------------------------------------------------------
(* parse_rule (utils.py 288-337): a URL template, one character at a time *)

\* How many pieces a template is put together from
MaxPieces == 3

\* [a-zA-Z_] and [a-zA-Z0-9_], as far as the templates below use them
IdentStart == {"a", "b", "c", "x"}
IdentChars == IdentStart \cup {"1"}

\* The pieces of the templates: text, single brackets and whole tokens
Pieces ==
    {<< "/" >>, << "x" >>, << "<" >>, << ">" >>,
     << "<", "a", ">" >>, << "<", "b", ">" >>,
     << "<", "c", ":", "a", ">" >>,
     << "<", "c", "(", "1", ")", ":", "b", ">" >>}

RECURSIVE Concat(_)
Concat(ps) == IF ps = << >> THEN << >> ELSE Head(ps) \o Concat(Tail(ps))

\* str(rule) of the rules the application registers
Templates ==
    {Concat(ps) : ps \in UNION {[1..n -> Pieces] : n \in 0..MaxPieces}}

\* The position after the longest run of characters of cls from p on
RECURSIVE RunEnd(_, _, _)
RunEnd(s, p, cls) ==
    IF p <= Len(s) /\ s[p] \in cls THEN RunEnd(s, p + 1, cls) ELSE p

\* [a-zA-Z_][a-zA-Z0-9_]* at p: the position after it, or 0 for no match
IdentEnd(s, p) ==
    IF p <= Len(s) /\ s[p] \in IdentStart THEN RunEnd(s, p + 1, IdentChars)
    ELSE 0

At(s, p, ch) == p >= 1 /\ p <= Len(s) /\ s[p] = ch

\* <variable> closed at the position before q
ClosesAt(s, p) ==
    LET v == IdentEnd(s, p) IN IF v # 0 /\ At(s, v, ">") THEN v ELSE 0

NoMatch == [matched |-> FALSE]
Matched(converter, args, variable, from, end) ==
    [matched |-> TRUE, converter |-> converter, args |-> args,
     variable |-> variable, static_from |-> from, end |-> end]

Sub(s, i, j) == SubSeq(s, i, j)

\* RE_PARSE_RULE.match(rule_str, pos): static text up to the first "<", then
\* the token.  static is [^<]*, so it takes ">" as well; (?P<args>.*?) is
\* the shortest text after which "):variable>" follows.
RE_PARSE_RULE_match(s, pos) ==
    LET lt == RunEnd(s, pos, {s[i] : i \in DOMAIN s} \ {"<"})
        c == IdentEnd(s, lt + 1)
    IN IF ~At(s, lt, "<") \/ c = 0 THEN NoMatch
       ELSE IF At(s, c, ":") /\ ClosesAt(s, c + 1) # 0
            THEN Matched(Sub(s, lt + 1, c - 1), << >>,
                         Sub(s, c + 2 - 1, ClosesAt(s, c + 1) - 1),
                         lt, ClosesAt(s, c + 1) + 1)
       ELSE IF At(s, c, "(")
               /\ \E k \in (c + 1)..Len(s) :
                     At(s, k, ")") /\ At(s, k + 1, ":") /\ ClosesAt(s, k + 2) # 0
            THEN LET k == CHOOSE k \in (c + 1)..Len(s) :
                             /\ At(s, k, ")") /\ At(s, k + 1, ":")
                             /\ ClosesAt(s, k + 2) # 0
                             /\ \A j \in (c + 1)..(k - 1) :
                                   ~(At(s, j, ")") /\ At(s, j + 1, ":")
                                     /\ ClosesAt(s, j + 2) # 0)
                 IN Matched(Sub(s, lt + 1, c - 1), Sub(s, c + 1, k - 1),
                            Sub(s, k + 2, ClosesAt(s, k + 2) - 1),
                            lt, ClosesAt(s, k + 2) + 1)
       ELSE IF At(s, c, ">")
            THEN Matched(<< >>, << >>, Sub(s, lt + 1, c - 1), lt, c + 1)
       ELSE NoMatch

\* What parse_rule yields: (None, None, static) or (converter, args, variable)
NoneText == << "None" >>
DefaultConverter == << "default" >>
StaticPart(text) == [converter |-> NoneText, args |-> NoneText, variable |-> text]
\* A part that keeps the converter as the token gives it
VariablePartAsWritten(m) ==
    [converter |-> m.converter,
     args |-> IF m.args = << >> THEN NoneText ELSE m.args,
     variable |-> m.variable]

\* converter = data["converter"] or "default"; data["args"] or None
VariablePart(m) ==
    [converter |-> IF m.converter = << >> THEN DefaultConverter ELSE m.converter,
     args |-> IF m.args = << >> THEN NoneText ELSE m.args,
     variable |-> m.variable]

\* The loop of parse_rule from pos on, and what follows it
RECURSIVE parse_rule_from(_, _, _, _)
parse_rule_from(s, pos, used_names, out) ==
    LET m == IF pos <= Len(s) THEN RE_PARSE_RULE_match(s, pos) ELSE NoMatch
    IN IF m.matched
       THEN IF m.variable \in used_names THEN Raised("ValueError: used twice")
            ELSE parse_rule_from(s, m.end, used_names \cup {m.variable},
                    (IF m.static_from > pos
                     THEN Append(out, StaticPart(Sub(s, pos, m.static_from - 1)))
                     ELSE out) \o << VariablePart(m) >>)
       ELSE IF pos <= Len(s)
            THEN LET remaining == Sub(s, pos, Len(s)) IN
                 IF \E i \in DOMAIN remaining : remaining[i] \in {"<", ">"}
                 THEN Raised("ValueError: malformed url rule")
                 ELSE Returned(Append(out, StaticPart(remaining)))
            ELSE Returned(out)

parse_rule(rule_str) == parse_rule_from(rule_str, 1, {}, << >>)

RuleStart ==
    /\ OthersIdle
    /\ fn_args \in Templates
    /\ fn_result = Pending

\* list(parse_rule(rule)), as parse_path consumes it
CallParseRule ==
    /\ fn_result = Pending
    /\ fn_result' = parse_rule(fn_args)
    /\ UNCHANGED << reqVars, docVars, cfgVars, fn_args, raceVars >>

NextRule == CallParseRule

-----------------------------------------------------------------------------
(* The registrations of validate(...) over all slots (spec.py 222-277) *)

BodyClass == [name |-> "Body", variant |-> 1, definitions |-> {}]
HeadersClass == [name |-> "Headers", variant |-> 1, definitions |-> {}]
CookiesClass == [name |-> "Cookies", variant |-> 1, definitions |-> {}]

\* body=...: left out, Request() without model, Request(model), or the
\* model class itself
NoBody == [kind |-> None, model |-> NoClass]
RequestOf(cls) == [kind |-> "Request", model |-> cls]
BareModel(cls) == [kind |-> "class", model |-> cls]

ValidateArgs(q, b, h, c, r) ==
    [query |-> q, body |-> b, headers |-> h, cookies |-> c, resp |-> r]

\* resp=...: left out (no descriptor) or the values of code_models, in order;
\* Response("HTTP_401") has none
NoDescriptor == [given |-> FALSE, models |-> << >>]
ResponseOf(ms) == [given |-> TRUE, models |-> ms]

\* The validate(...) calls of an application
ValidateCalls ==
    {ValidateArgs(NoClass, NoBody, NoClass, NoClass, NoDescriptor),
     ValidateArgs(QueryClass, NoBody, NoClass, NoClass, NoDescriptor),
     ValidateArgs(NoClass, RequestOf(BodyClass), NoClass, NoClass, NoDescriptor),
     ValidateArgs(NoClass, RequestOf(NoClass), NoClass, NoClass, NoDescriptor),
     ValidateArgs(NoClass, BareModel(BodyClass), NoClass, NoClass, NoDescriptor),
     ValidateArgs(NoClass, NoBody, HeadersClass, NoClass, NoDescriptor),
     ValidateArgs(NoClass, NoBody, NoClass, CookiesClass, NoDescriptor),
     ValidateArgs(NoClass, NoBody, NoClass, NoClass, ResponseOf(<< RespV1 >>)),
     ValidateArgs(NoClass, NoBody, NoClass, NoClass,
                  ResponseOf(<< RespV2, QueryClass >>)),
     ValidateArgs(NoClass, NoBody, NoClass, NoClass, ResponseOf(<< >>)),
     ValidateArgs(RespV1, NoBody, NoClass, NoClass, ResponseOf(<< RespV2 >>)),
     ValidateArgs(QueryClass, RequestOf(BodyClass), HeadersClass, CookiesClass,
                  ResponseOf(<< RespV1 >>))}

\* getattr(model, "model", None) of a request descriptor, else the class
\* itself; `if _model` leaves out a descriptor without model
SlotModel(name, args) ==
    IF name = "body" THEN args.body.model ELSE args[name]

\* The models one decoration registers, in the order it registers them:
\* zip(("query", "body", "headers", "cookies"), ...), then resp.models
RegistrationOrder(args) ==
    SelectSeq([i \in 1..4 |->
                  SlotModel(<< "query", "body", "headers", "cookies" >>[i], args)],
              LAMBDA cls : cls # NoClass)
    \o (IF args.resp.given THEN args.resp.models ELSE << >>)

\* self.models[_model.__name__] = ... for each of them in turn
RECURSIVE RegisterAll(_, _, _)
RegisterAll(st, order, i) ==
    IF i > Len(order) THEN st
    ELSE RegisterAll(Register(st, order[i]), order, i + 1)

RegistryStart ==
    /\ RequestIdle /\ DocIdle /\ ConfigIdle /\ RaceIdle
    /\ fn_args = << >>
    /\ fn_result = Pending

\* validate(...)(func) on instance A, as far as self.models goes; fn_args
\* keeps the calls made so far
DecorateSlots ==
    /\ Len(fn_args) < MaxDecorations
    /\ \E args \in ValidateCalls :
          LET st == RegisterAll([models |-> models, heap |-> heap, pinned |-> {}],
                                RegistrationOrder(args), 1)
          IN /\ models' = st.models
             /\ heap' = Sweep(st.heap, RegistryIds(st.models))
             /\ fn_args' = Append(fn_args, args)
    /\ UNCHANGED << mode, attrs, rules, spec_cache, spec_returned, accesses,
                    first_value, gen_attrs, gen_rules, decorated >>
    /\ UNCHANGED << reqVars, cfgVars, fn_result, raceVars >>

NextRegistry == DecorateSlots

-----------------------------------------------------------------------------
(* Schema sanitization (spec.py 438-507) *)

\* allowed_fields of _validate_property
AllowedFields ==
    {"title", "multipleOf", "maximum", "exclusiveMaximum", "minimum",
     "exclusiveMinimum", "maxLength", "minLength", "pattern", "maxItems",
     "minItems", "uniqueItems", "maxProperties", "minProperties", "required",
     "enum", "type", "allOf", "anyOf", "oneOf", "not", "items", "properties",
     "additionalProperties", "description", "format", "default", "nullable",
     "discriminator", "readOnly", "writeOnly", "xml", "externalDocs",
     "example", "deprecated", "$ref"}

\* The keys the field schemas below are made of, each with the value it has
FieldKeyValues ==
    [type |-> "integer", exclusiveMinimum |-> "5", const |-> "x"]

\* A schema dict: its keys with plain values, and its "properties" map when
\* it has one
Dict(scalars, has, props) ==
    [scalars |-> scalars, has_properties |-> has, properties |-> props]
KeysOf(d) ==
    DOMAIN d.scalars \cup (IF d.has_properties THEN {"properties"} ELSE {})

\* Field schemas without nested object, and fields that are objects with one
\* field of their own
PlainFields ==
    {Dict([k \in S |-> FieldKeyValues[k]], FALSE, EmptyMap) :
        S \in SUBSET DOMAIN FieldKeyValues}
ObjectFields ==
    {Dict([k \in {"type"} |-> "object"], TRUE, [n \in {"inner"} |-> f]) :
        f \in PlainFields}
PropertyMaps ==
    UNION {[S -> PlainFields \cup ObjectFields] : S \in SUBSET {"a", "b"}}

\* model.schema() of the models an application declares
InputSchemas ==
    {Dict([k \in {"title", "type"} |->
              IF k = "title" THEN "Model" ELSE "object"], TRUE, props) :
        props \in PropertyMaps}

\* One field under _validate_property: the allowed keys, with the value of
\* exclusiveMinimum moved to minimum; the value of a kept key is not looked
\* into
ValidatedField(value) ==
    LET kept == DOMAIN value.scalars \cap AllowedFields
    IN Dict([k \in kept \cup (IF "exclusiveMinimum" \in kept
                              THEN {"minimum"} ELSE {}) |->
                IF k = "exclusiveMinimum" THEN "True"
                ELSE IF k = "minimum" /\ "exclusiveMinimum" \in kept
                     THEN value.scalars["exclusiveMinimum"]
                     ELSE value.scalars[k]],
            value.has_properties, value.properties)

\* result = defaultdict(dict): a field gets its entry with the first allowed
\* key that is written to it
_validate_property(property) ==
    [key \in {k \in DOMAIN property : KeysOf(property[k]) \cap AllowedFields # {}}
        |-> ValidatedField(property[key])]

\* _get_open_api_schema: the value of the top-level key "properties" goes
\* through _validate_property, every other key is copied. The schemas here
\* hold no "$ref"; what nested_alter does to a "$ref" is AlterRefs below.
_get_open_api_schema(schema) ==
    Dict(schema.scalars, schema.has_properties,
         IF schema.has_properties THEN _validate_property(schema.properties)
         ELSE schema.properties)

SanitizeStart ==
    /\ OthersIdle
    /\ fn_args \in InputSchemas
    /\ fn_result = Pending

\* self._get_open_api_schema(_model.schema())
CallGetOpenApiSchema ==
    /\ fn_result = Pending
    /\ fn_result' = Returned(_get_open_api_schema(fn_args))
    /\ UNCHANGED << reqVars, docVars, cfgVars, fn_args, raceVars >>

NextSanitize == CallGetOpenApiSchema

-----------------------------------------------------------------------------
(* References and nested models in components.schemas (spec.py 25-28, 495-526) *)

\* How many models an application registers
MaxRegistered == 2

\* A reference "<prefix><name>"
Ref(prefix, n) == [prefix |-> prefix, name |-> n]
ComponentsPrefix == "#/components/schemas/"

\* What model.schema() of the schema library looks like for a model with
\* nested models: pydantic.v1 models give a "definitions" bucket and
\* "#/definitions/<name>" references, pydantic models a "$defs" bucket and
\* "#/$defs/<name>" references
BucketKey(lib) == IF lib = "v1" THEN "definitions" ELSE "$defs"
BucketPrefix(lib) == IF lib = "v1" THEN "#/definitions/" ELSE "#/$defs/"

\* The models: name, library, and the nested models with the nested models
\* each of those refers to
ModelClass(n, lib, nested) == [name |-> n, lib |-> lib, nested |-> nested]
NoNested == [n \in {} |-> {}]
ModelClasses ==
    {ModelClass("Plain", lib, NoNested) : lib \in {"v1", "v2"}}
    \cup {ModelClass("Sub", lib, NoNested) : lib \in {"v1", "v2"}}
    \cup {ModelClass("Outer", lib, [n \in {"Sub"} |-> {}]) : lib \in {"v1", "v2"}}
    \cup {ModelClass("Deep", lib,
                     [n \in {"Mid", "Leaf"} |->
                         IF n = "Mid" THEN {"Leaf"} ELSE {}]) :
             lib \in {"v1", "v2"}}

\* A schema dict, as far as references and buckets go
SchemaDict(title, refs, kept) ==
    [title |-> title, refs |-> refs, buckets |-> kept]

\* model.schema(): the model refers to the nested models it uses directly
\* (here: those no other nested model refers to), and the bucket holds all
\* of them
LibrarySchema(cls) ==
    LET inner == UNION {cls.nested[n] : n \in DOMAIN cls.nested}
        prefix == BucketPrefix(cls.lib)
    IN SchemaDict(cls.name,
                  {Ref(prefix, n) : n \in DOMAIN cls.nested \ inner},
                  IF DOMAIN cls.nested = {} THEN EmptyMap
                  ELSE [k \in {BucketKey(cls.lib)} |->
                           [n \in DOMAIN cls.nested |->
                               SchemaDict(n, {Ref(prefix, m) : m \in cls.nested[n]},
                                          EmptyMap)]])

\* "/definitions" in reference
ContainsDefinitions(prefix) == prefix = "#/definitions/"

\* _move_schema_reference
_move_schema_reference(reference) ==
    IF ContainsDefinitions(reference.prefix)
    THEN Ref(ComponentsPrefix, reference.name)
    ELSE reference

\* nested_alter(result, "$ref", _move_schema_reference): every "$ref" of the
\* dict, those inside its buckets included
AlterRefs(schema) ==
    SchemaDict(schema.title,
               {_move_schema_reference(r) : r \in schema.refs},
               [k \in DOMAIN schema.buckets |->
                   [n \in DOMAIN schema.buckets[k] |->
                       SchemaDict(schema.buckets[k][n].title,
                                  {_move_schema_reference(r) :
                                      r \in schema.buckets[k][n].refs},
                                  schema.buckets[k][n].buckets)]])

\* self.models after the registrations of the classes, in key order
RECURSIVE RegisteredSchemas(_, _, _)
RegisteredSchemas(classes, i, reg) ==
    IF i > Len(classes) THEN reg
    ELSE LET entry == [name |-> classes[i].name,
                       schema |-> AlterRefs(LibrarySchema(classes[i]))]
             at == {j \in DOMAIN reg : reg[j].name = classes[i].name}
         IN RegisteredSchemas(classes, i + 1,
                IF at = {} THEN Append(reg, entry)
                ELSE [j \in DOMAIN reg |-> IF j \in at THEN entry ELSE reg[j]])

\* _get_model_definitions over the registry from position i on: the
\* registered schema goes in under its name unless the name is taken, the
\* models of its "definitions" bucket go in under theirs, and the bucket is
\* deleted from the schema
RECURSIVE ModelDefinitions(_, _, _)
ModelDefinitions(reg, i, definitions) ==
    IF i > Len(reg) THEN definitions
    ELSE LET model == reg[i].name
             schema == reg[i].schema
             hoist == "definitions" \in DOMAIN schema.buckets
             stripped == [schema EXCEPT !.buckets =
                             [k \in DOMAIN schema.buckets \ {"definitions"} |->
                                 schema.buckets[k]]]
             own == IF model \in DOMAIN definitions THEN definitions
                    ELSE (model :> stripped) @@ definitions
             nested == IF hoist
                       THEN [n \in DOMAIN schema.buckets["definitions"] |->
                                AlterRefs(schema.buckets["definitions"][n])]
                       ELSE EmptyMap
         IN ModelDefinitions(reg, i + 1, nested @@ own)

ComponentsStart ==
    /\ OthersIdle
    /\ fn_args \in UNION {[1..n -> ModelClasses] : n \in 1..MaxRegistered}
    /\ fn_result = Pending

\* The registrations of the classes followed by the first access of `spec`:
\* components.schemas of the document
CallComponents ==
    /\ fn_result = Pending
    /\ fn_result' = Returned(ModelDefinitions(
                                 RegisteredSchemas(fn_args, 1, << >>), 1, EmptyMap))
    /\ UNCHANGED << reqVars, docVars, cfgVars, fn_args, raceVars >>

NextComponents == CallComponents

-----------------------------------------------------------------------------
(* find_routes over an application with blueprints (flask_backend.py 53-60) *)

\* How many rules the url_map holds
MaxMapRules == 2

\* A path is held as the sequence of its fragments; no fragment begins
\* another, so one path begins another as text exactly when its fragments
\* begin the other's
Fragments == {"/", "apidoc", "static", "user", "v1", "_old", "openapi.json",
              "None"}

\* self.config.PATH
ConfigPath == << "apidoc" >>

\* The url_prefix of a registered blueprint: None, or "/v1"
NoPrefix == << >>
UrlPrefixes == {NoPrefix, << "/", "v1" >>}

\* f"{blueprint.url_prefix}": formatting None gives the text "None"
FormatPrefix(url_prefix) ==
    IF url_prefix = NoPrefix THEN << "None" >> ELSE url_prefix

\* str(rule) of the rules an application can hold: its own routes, the
\* routes serving the document, the static files, and the same under the
\* blueprint's prefix
RulePaths ==
    {<< "/", "user" >>,
     << "/", "user", "/", "apidoc" >>,
     << "/", "apidoc" >>,
     << "/", "apidoc", "/", "openapi.json" >>,
     << "/", "apidoc", "_old" >>,
     << "/", "static", "/", "user" >>,
     << "/", "static", "_old" >>,
     << "/", "v1", "/", "user" >>,
     << "/", "v1", "/", "apidoc", "/", "openapi.json" >>,
     << "/", "v1", "/", "apidoc", "_old" >>}

Apps ==
    [blueprints : SUBSET UrlPrefixes,
     rules : UNION {[1..n -> RulePaths] : n \in 0..MaxMapRules}]

\* openapi_paths of find_routes: f"/{self.config.PATH}" and, for each
\* blueprint, f"{blueprint.url_prefix}/{self.config.PATH}"
openapi_paths(app) ==
    {<< "/" >> \o ConfigPath}
    \cup {FormatPrefix(p) \o << "/" >> \o ConfigPath : p \in app.blueprints}

\* FlaskBackend.find_routes on the application: the rules whose text does
\* not begin with one of openapi_paths or "/static", in url_map order
find_routes_app(app) ==
    SelectSeq(app.rules,
              LAMBDA rule : ~ \E path \in openapi_paths(app)
                                         \cup {<< "/", "static" >>} :
                                  StartsWith(rule, path))

RoutesStart ==
    /\ OthersIdle
    /\ fn_args \in Apps
    /\ fn_result = Pending

\* list(backend.find_routes(app))
CallFindRoutes ==
    /\ fn_result = Pending
    /\ fn_result' = Returned(find_routes_app(fn_args))
    /\ UNCHANGED << reqVars, docVars, cfgVars, fn_args, raceVars >>

NextRoutes == CallFindRoutes

-----------------------------------------------------------------------------
(* Specifications *)

Init == InitRequest /\ DocIdle /\ ConfigIdle /\ FnIdle /\ RaceIdle

Spec == Init /\ [][Next]_vars

\* An instance with no request in flight and the default configuration
DocStart == RequestIdle /\ InitDoc /\ ConfigIdle /\ FnIdle /\ RaceIdle

SpecDoc == DocStart /\ [][NextDoc]_vars

\* No Config object yet
ConfigStart == RequestIdle /\ DocIdle /\ ConfigIdle /\ FnIdle /\ RaceIdle

SpecConfig == ConfigStart /\ [][NextConfig]_vars

SpecPath == PathStart /\ [][NextPath]_vars

SpecMultiDict == MultiDictStart /\ [][NextMultiDict]_vars

SpecBody == BodyStart /\ [][NextBody]_vars

SpecResp == RespStart /\ [][NextResp]_vars

SpecTags == TagsStart /\ [][NextTags]_vars

SpecParams == ParamsStart /\ [][NextParams]_vars

SpecRace == RaceStart /\ [][NextRace]_vars

SpecRule == RuleStart /\ [][NextRule]_vars

SpecRegistry == RegistryStart /\ [][NextRegistry]_vars

SpecSanitize == SanitizeStart /\ [][NextSanitize]_vars

SpecComponents == ComponentsStart /\ [][NextComponents]_vars

SpecRoutes == RoutesStart /\ [][NextRoutes]_vars

----------------------------------------------------------------------------
(* Claims about the request lifecycle, checked under Spec *)

HandlerCalls == Cardinality({i \in DOMAIN log : log[i].ev = "handler"})
EventAt(e) == {i \in DOMAIN log : log[i].ev = e}

\* Some declared slot of the request fails its model, and request_validation
\* got as far as validating
SomeSlotRejected ==
    /\ pc \notin {"idle", "start"}
    /\ request.parse = "ok"
    /\ \/ route.query /\ "query" \in request.bad
       \/ route.body = "Request(model)" /\ "body" \in request.bad
       \/ route.headers /\ "headers" \in request.bad
       \/ route.cookies /\ "cookies" \in request.bad

\* C1: when any declared slot (query, body, headers, cookies) fails model
\* validation, validate builds a response whose status is the configured
\* VALIDATION_ERROR_CODE, that response is what the request is aborted with,
\* the run never reaches the handler, and the handler is called zero times.
C1_ValidationFailureAborts ==
    SomeSlotRejected =>
        /\ req_validation_error # None
        /\ response.status = config_code
        /\ HandlerCalls = 0
        /\ pc \in {"validated", "before_called", "aborted", "raised"}
        /\ pc = "aborted" => returned.status = config_code

\* A request whose body (not its query) is rejected is aborted with 400
C1_Witness ==
    /\ pc = "aborted"
    /\ config_code = OtherValidationErrorCode
    /\ request.bad = {"body"}
    /\ returned.status = OtherValidationErrorCode
    /\ HandlerCalls = 0

\* C2: within one run of validate the before-hook call precedes any handler
\* call, the after-hook call follows the response validation, and the
\* handler is called at most once.
C2_CallOrder ==
    /\ \A i \in EventAt("handler") : \E j \in EventAt("before") : j < i
    /\ \A i \in EventAt("after") :
          /\ \E j \in EventAt("response_validation") : j < i
          /\ \A j \in EventAt("response_validation") : j < i
    /\ HandlerCalls <= 1

\* A run that went through every stage
C2_Witness ==
    /\ pc = "done"
    /\ HandlerCalls = 1
    /\ EventAt("before") # {}
    /\ EventAt("after") # {}

\* C3: on a request-validation failure the before-hook gets the draft error
\* response and the error; whatever it does to the draft, the request is
\* aborted with that draft as the hook left it and the handler is not
\* called.  On success the before-hook gets a null response and a null error.
C3_BeforeHookArguments ==
    /\ before_args.called =>
          IF req_validation_error # None
          THEN /\ before_args.err = req_validation_error
               /\ before_args.resp.status = config_code
               /\ before_args.resp.body = ErrorPayload(req_validation_error)
          ELSE /\ before_args.err = None
               /\ before_args.resp = NoResponse
    /\ (before_args.called /\ req_validation_error # None) =>
          /\ HandlerCalls = 0
          /\ pc \in {"before_called", "aborted", "raised"}
    /\ pc = "aborted" =>
          /\ before_args.called
          /\ returned.status = before_args.resp.status
          /\ returned.body = before_args.resp.body
          /\ before_args.resp.headers \subseteq returned.headers
          /\ returned = response

\* A failed request aborted with the header its before-hook added
C3_Witness ==
    /\ pc = "aborted"
    /\ before_args.err = "headers"
    /\ "X-Error" \in returned.headers
    /\ "X-Error" \notin before_args.resp.headers

\* The handler's body fails the model bound to the status it returned, and
\* the descriptor validates
BodyFailsBoundModel ==
    /\ handler_out # NoResponse
    /\ route.resp.kind = "Response"
    /\ route.resp.validate
    /\ route.resp.code_models[handler_out.status] # None
    /\ ~Conforms(route.resp.code_models[handler_out.status], handler_out.body)

\* C4: when response validation is enabled and the handler's body fails the
\* model bound to the response's actual status code, the response passed to
\* the after-hook (with the captured error) and returned has status 500 and
\* the generic message as its body, not the handler's body.
C4_ResponseValidationFailure ==
    BodyFailsBoundModel =>
        /\ after_args.called =>
              /\ after_args.resp.status = ResponseValidationStatus
              /\ after_args.resp.body = MessageBody(GenericMessage)
              /\ after_args.err = route.resp.code_models[handler_out.status]
        /\ pc = "done" =>
              /\ returned.status = ResponseValidationStatus
              /\ returned.body = MessageBody(GenericMessage)
              /\ returned.body # handler_out.body

\* A 404 whose body fails the model bound to 404 (and would pass the model
\* bound to 200) comes back as the generic 500
C4_Witness ==
    /\ pc = "done"
    /\ handler_out.status = StatusNotFound
    /\ handler_out.body = HandlerBody("fits_Resp")
    /\ route.resp.code_models[StatusNotFound] = "Users"
    /\ route.resp.code_models[StatusOK] = "Resp"
    /\ returned.status = ResponseValidationStatus
    /\ after_args.err = "Users"

\* C5: the handler's response is returned with its status and body unchanged
\* whenever its body passes the declared model or response validation does
\* not apply (no descriptor, no status-code-to-model mapping, validate=False,
\* no model bound to the actual status code).
C5_ResponseUnchanged ==
    (pc = "done" /\ ~BodyFailsBoundModel) =>
        /\ returned.status = handler_out.status
        /\ returned.body = handler_out.body
        /\ resp_validation_error = None

\* validate=False: a body that fails the model bound to its status is
\* returned as the handler made it
C5_Witness ==
    /\ pc = "done"
    /\ route.resp.kind = "Response"
    /\ ~route.resp.validate
    /\ route.resp.code_models[handler_out.status] = "Resp"
    /\ handler_out.body = HandlerBody("fits_no_model")
    /\ returned.body = handler_out.body
    /\ returned.status = handler_out.status

\* What instance A is expected to do with a handler in each mode
ExpectedIncluded(func, md) ==
    CASE md = "strict" -> func.decorator = "A"
      [] md = "greedy" -> TRUE
      [] md = "normal" -> func.decorator = None \/ func.decorator = "A"

\* The document methods: those the backend does not always leave out
DocumentedMethods(rule) == rule.methods \ {"HEAD", "OPTIONS"}

\* The rules walked when the returned document was built
WalkedRules == find_routes(gen_rules)

\* C6: an operation of a handler is in the document only if the mode includes
\* the handler (strict: decorated by A; greedy: always; normal: undecorated or
\* decorated by A), and every walked route of an included handler has its
\* operations in the document.
C6_ModeFiltering ==
    accesses >= 1 =>
        /\ \A key \in DOMAIN spec_returned.paths :
              ExpectedIncluded(gen_attrs[spec_returned.paths[key].operationId],
                               mode)
        /\ \A i \in DOMAIN WalkedRules :
              ExpectedIncluded(gen_attrs[WalkedRules[i].endpoint], mode) =>
                 \A m \in DocumentedMethods(WalkedRules[i]) :
                    << parse_path(WalkedRules[i].path), Lower(m) >>
                        \in DOMAIN spec_returned.paths

\* Normal mode: the route of a handler decorated by B is left out and the
\* route of an undecorated handler is in the document
C6_Witness ==
    /\ accesses >= 1
    /\ mode = "normal"
    /\ gen_attrs["h1"].decorator = "B"
    /\ gen_attrs["h2"].decorator = None
    /\ \E i \in DOMAIN WalkedRules : WalkedRules[i].endpoint = "h1"
    /\ DOMAIN spec_returned.paths = {<< parse_path(UserPath), "post" >>}
    /\ spec_returned.paths[<< parse_path(UserPath), "post" >>].operationId = "h2"

\* C7: in every mode the returned document has no operation for HEAD or
\* OPTIONS under any path.
C7_NoHeadNoOptions ==
    accesses >= 1 =>
        \A key \in DOMAIN spec_returned.paths :
            key[2] \notin {"head", "options"}

\* A walked route of an included handler that carries HEAD and OPTIONS, with
\* its GET operation in the document
C7_Witness ==
    /\ accesses >= 1
    /\ \E i \in DOMAIN WalkedRules :
          /\ {"HEAD", "OPTIONS"} \subseteq WalkedRules[i].methods
          /\ ~bypass(gen_attrs[WalkedRules[i].endpoint], mode)
    /\ << parse_path(UserPath), "get" >> \in DOMAIN spec_returned.paths

\* C8: every access of the spec property returns the document of the first
\* access, whatever was decorated or registered in between.
C8_CachedDocument ==
    accesses >= 1 => DocValue(spec_returned, heap) = first_value

\* A second access after a decoration that added one registry entry and
\* rebound another one the document holds
C8_Witness ==
    /\ accesses >= 2
    /\ attrs # gen_attrs
    /\ \E i \in DOMAIN models : models[i].name \notin DOMAIN spec_returned.schemas
    /\ \E i \in DOMAIN models :
          /\ models[i].name \in DOMAIN spec_returned.schemas
          /\ models[i].id # spec_returned.schemas[models[i].name]
          /\ heap[models[i].id] # heap[spec_returned.schemas[models[i].name]]

\* C9: a decoration without a response descriptor raises.
C9_DecorationWithoutRespRaises ==
    (decorated.count > 0 /\ ~decorated.resp_given) => decorated.raised

\* The values the documentation names for UI and MODE
SupportedUI == {"redoc", "swagger"}
SupportedMode == {"normal", "strict", "greedy"}

\* C10: a construction that leaves UI outside {redoc, swagger} or MODE
\* outside {normal, strict, greedy} raises.
C10_InvalidConfigRaises ==
    (/\ config_call = "init"
     /\ \/ ~(config_attrs.UI \subseteq SupportedUI)
        \/ ~(config_attrs.MODE \subseteq SupportedMode))
    => config_raised

----------------------------------------------------------------------------
(* Claims about single calls *)

\* The converter table of the documentation
TableSchema(token) ==
    CASE token.converter = "any" ->
            ("type" :> Scalar("string")) @@ ("enum" :> token.args)
      [] token.converter = "int" ->
            [k \in {"type", "format"}
                  \cup {n \in {"minimum", "maximum"} :
                          (n = "minimum" /\ "min" \in DOMAIN token.kwargs)
                          \/ (n = "maximum" /\ "max" \in DOMAIN token.kwargs)}
               |-> CASE k = "type" -> Scalar("integer")
                     [] k = "format" -> Scalar("int32")
                     [] k = "minimum" -> token.kwargs["min"]
                     [] k = "maximum" -> token.kwargs["max"]]
      [] token.converter = "float" ->
            ("type" :> Scalar("number")) @@ ("format" :> Scalar("float"))
      [] token.converter = "uuid" ->
            ("type" :> Scalar("string")) @@ ("format" :> Scalar("uuid"))
      [] token.converter = "path" ->
            ("type" :> Scalar("string")) @@ ("format" :> Scalar("path"))
      [] token.converter = "string" ->
            [k \in {"type"}
                  \cup {n \in {"length", "maxLength", "minLength"} :
                          \/ (n = "length" /\ "length" \in DOMAIN token.kwargs)
                          \/ (n = "maxLength" /\ "maxlength" \in DOMAIN token.kwargs)
                          \/ (n = "minLength" /\ "minlength" \in DOMAIN token.kwargs)}
               |-> CASE k = "type" -> Scalar("string")
                     [] k = "length" -> token.kwargs["length"]
                     [] k = "maxLength" -> token.kwargs["maxlength"]
                     [] k = "minLength" -> token.kwargs["minlength"]]
      [] token.converter \in DOMAIN CustomConverters
         /\ CustomConverters[token.converter] = "Enum" ->
            ("type" :> Scalar("string")) @@ ("enum" :> EnumValues)
      [] OTHER -> ("type" :> Scalar("string"))

\* C11: for every path variable parse_path returns the schema the converter
\* table gives for its converter.
C11_ConverterTable ==
    fn_result # Pending =>
        /\ fn_result.status = "returned"
        /\ fn_result.value.parameters[1].schema = TableSchema(fn_args)

\* JSON as the standard defines it: no NaN, no Infinity, any nesting depth
StandardJson(text) == [constants |-> FALSE, limit |-> Len(text)]
ValidJson(text) == loads(text, StandardJson(text)).ok

\* C12: a single query value that is the JSON encoding of an integer, a
\* boolean or a nested object v comes back as v, and a single value that is
\* not valid JSON comes back as the original string.
C12_QueryRoundTrip ==
    fn_result # Pending =>
        \A k \in DOMAIN fn_args :
            Len(fn_args[k]) = 1 =>
                /\ fn_result.status = "returned"
                /\ \A v \in EncodedValues :
                      fn_args[k][1] = dumps(v) => fn_result.value[k] = v
                /\ ~ValidJson(fn_args[k][1]) =>
                      fn_result.value[k] = JStr(fn_args[k][1])

\* C13: a JSON body sent gzip-compressed is parsed to the same value, or
\* fails the same way, as the same body sent uncompressed.
C13_GzipSameAsPlain ==
    (fn_result.plain # Pending /\ fn_result.gzip # Pending) =>
        fn_result.gzip = fn_result.plain

\* A handler with a model declared in any slot or in its response descriptor
DeclaresModel(func) ==
    \/ func.slots # {}
    \/ \E c \in DOMAIN func.resp.code_models : func.resp.code_models[c] # None

\* The status codes the descriptor itself has an entry for
ExplicitCodes(resp) ==
    IF resp.kind = "FileResponse" THEN {200, 404}
    ELSE resp.codes \cup DOMAIN resp.code_models

\* C14: a handler with a declared model and no explicit entry at the
\* validation-error code gets {description: "Validation Error"} there; an
\* explicit entry stays as declared; a handler without model gets none.
C14_ValidationErrorEntry ==
    fn_result # Pending =>
        LET func == fn_args.func
            code == fn_args.code
            out == fn_result.value
        IN /\ (DeclaresModel(func) /\ code \notin ExplicitCodes(func.resp)) =>
                 (code \in DOMAIN out /\ out[code] = ValidationErrorEntry)
           /\ code \in ExplicitCodes(func.resp) =>
                 out[code] = generate_spec(func.resp)[code]
           /\ ~DeclaresModel(func) => DOMAIN out = ExplicitCodes(func.resp)

\* The order of the tag names
TagRank == ("alpha" :> 1) @@ ("zeta" :> 2)

\* The tags of the operations the mode includes
UsedTags(args) ==
    LET rs == find_routes(args.rules)
    IN {t \in {"alpha", "zeta"} :
          \E i \in DOMAIN rs :
             /\ DocumentedMethods(rs[i]) # {}
             /\ ExpectedIncluded(args.attrs[rs[i].endpoint], args.mode)
             /\ \E j \in DOMAIN args.attrs[rs[i].endpoint].tags :
                   args.attrs[rs[i].endpoint].tags[j] = t}

\* Each used tag once, with its configured metadata or {name: tag}
TagsAreTheUsedOnes(tags, args) ==
    /\ {tags[i].name : i \in DOMAIN tags} = UsedTags(args)
    /\ \A i, j \in DOMAIN tags : tags[i].name = tags[j].name => i = j
    /\ \A i \in DOMAIN tags :
          tags[i] = IF \E k \in DOMAIN args.TAGS : args.TAGS[k].name = tags[i].name
                    THEN args.TAGS[CHOOSE k \in DOMAIN args.TAGS :
                                       args.TAGS[k].name = tags[i].name]
                    ELSE TagEntry(tags[i].name, None)

TagsAreSorted(tags) ==
    \A i, j \in DOMAIN tags : i < j => TagRank[tags[i].name] < TagRank[tags[j].name]

\* C15: the tags list holds each tag of an included operation once, sorted
\* by name, with the configured metadata or {name: tag}.
C15_TagsDedupSorted ==
    fn_result # Pending =>
        /\ TagsAreTheUsedOnes(fn_result.value, fn_args)
        /\ TagsAreSorted(fn_result.value)

----------------------------------------------------------------------------
(* More claims about the document, checked under SpecDoc *)

\* The walked rules of included handlers, and the document keys one supplies
IncludedRules(walked) ==
    {i \in DOMAIN walked : ExpectedIncluded(gen_attrs[walked[i].endpoint], mode)}
SuppliedKeys(rule) ==
    {<< parse_path(rule.path), Lower(m) >> : m \in DocumentedMethods(rule)}

\* C16: a path of the document has exactly the methods that the included
\* routes normalizing to it supply between them, and a method that several
\* routes supply has the operation of the route walked last.
C16_MethodsMergedLastWins ==
    accesses >= 1 =>
        LET walked == WalkedRules
            inc == IncludedRules(walked)
            paths == spec_returned.paths
        IN /\ DOMAIN paths = UNION {SuppliedKeys(walked[i]) : i \in inc}
           /\ \A key \in DOMAIN paths :
                 LET from == {i \in inc : key \in SuppliedKeys(walked[i])}
                 IN \E i \in from :
                       /\ \A j \in from : j <= i
                       /\ paths[key].operationId = walked[i].endpoint

\* Two included routes of different handlers supply GET for one path, and
\* the document has the handler of the second
C16_Witness ==
    /\ accesses >= 1
    /\ Len(WalkedRules) = 2
    /\ WalkedRules[1].endpoint = "h1"
    /\ WalkedRules[2].endpoint = "h2"
    /\ IncludedRules(WalkedRules) = {1, 2}
    /\ \A i \in {1, 2} :
          << parse_path(UserPath), "get" >> \in SuppliedKeys(WalkedRules[i])
    /\ spec_returned.paths[<< parse_path(UserPath), "get" >>].operationId = "h2"

----------------------------------------------------------------------------
(* More claims about the request lifecycle, checked under Spec *)

HookErrors == {"before_hook_error", "after_hook_error"}

\* C17: an exception raised by the before-hook or the after-hook leaves
\* validate as it is: validate returns nothing, so neither the
\* validation-error response nor the 500 response takes its place, and when
\* the before-hook raised the handler is not called.
C17_HookExceptionsPropagate ==
    /\ exception \in HookErrors => pc = "raised" /\ returned = NoResponse
    /\ exception = "before_hook_error" => HandlerCalls = 0

\* The before-hook raised while holding the draft error response
C17_Witness ==
    /\ exception = "before_hook_error"
    /\ req_validation_error # None
    /\ before_args.resp.status = config_code

\* The hooks that were called, by kind
HooksCalled(e) == {log[i].who : i \in EventAt(e)}

\* C18: a route decorated with its own before (after) hook has that hook
\* called and not the instance-level one; a route without one has the
\* instance-level hook called.  Either way at most one before-hook call and
\* one after-hook call is made per request.
C18_PerRouteHookReplaces ==
    /\ HooksCalled("before") \subseteq
           {IF route.before THEN "route" ELSE "instance"}
    /\ HooksCalled("after") \subseteq
           {IF route.after THEN "route" ELSE "instance"}
    /\ Cardinality(EventAt("before")) <= 1
    /\ Cardinality(EventAt("after")) <= 1

\* A finished request on a route with its own before-hook and no after-hook
\* of its own
C18_Witness ==
    /\ pc = "done"
    /\ route.before /\ ~route.after
    /\ HooksCalled("before") = {"route"}
    /\ HooksCalled("after") = {"instance"}

----------------------------------------------------------------------------
(* Claims about the parameters of one route, checked under SpecParams *)

\* The methods of the route that get an operation
IncludedMethods(args) ==
    {Lower(args.methods[i]) :
        i \in {j \in DOMAIN args.methods :
                  ~(backend_bypass(args.methods[j])
                    \/ bypass(args.func, args.mode))}}

\* C20: every included operation's parameters are the route's path
\* parameters followed by the query, header and cookie parameters of its
\* handler: nothing that was assembled for another method of the route is
\* among them.
C20_ParametersPerOperation ==
    fn_result.status = "returned" =>
        /\ DOMAIN fn_result.value = IncludedMethods(fn_args)
        /\ \A m \in DOMAIN fn_result.value :
              fn_result.value[m] =
                  fn_args.parameters \o OwnParameters(fn_args.func)

----------------------------------------------------------------------------
(* Claims about concurrent first accesses, checked under SpecRace *)

\* The document one first access alone builds from a registry
SequentialDocument(reg) ==
    [paths |-> WalkRoutes(find_routes(RaceRules), 1, RaceAttrs, "normal",
                          EmptyMap),
     tags |-> CollectTags(find_routes(RaceRules), 1, RaceAttrs, "normal",
                          tag_lookup(<< >>), << >>),
     schemas |-> {reg[i].name : i \in DOMAIN reg}
                 \cup UNION {reg[i].definitions : i \in DOMAIN reg}]

\* C19: of two threads that read `spec` before it is cached, each gets a
\* document equal to the one a single first access produces: the same
\* paths, tags and components.schemas, the hoisted nested definitions
\* included.
C19_ConcurrentFirstAccess ==
    \A t \in Threads :
        threads[t].pc \in {"done", "raised"} =>
            /\ threads[t].pc = "done"
            /\ threads[t].got = SequentialDocument(registry)

----------------------------------------------------------------------------
(* Claims about parse_rule, checked under SpecRule *)

\* s[i..j] is a complete token: <name>, <converter:name> or
\* <converter(args):name>, with no bracket inside
IsToken(s, i, j) ==
    /\ At(s, i, "<") /\ At(s, j, ">")
    /\ \A k \in (i + 1)..(j - 1) : s[k] \notin {"<", ">"}
    /\ LET c == IdentEnd(s, i + 1) IN
       /\ c # 0
       /\ \/ c = j
          \/ At(s, c, ":") /\ IdentEnd(s, c + 1) = j
          \/ /\ At(s, c, "(")
             /\ \E k \in (c + 1)..(j - 1) :
                   At(s, k, ")") /\ At(s, k + 1, ":") /\ IdentEnd(s, k + 2) = j

TokenSpans(s) ==
    {sp \in (DOMAIN s) \X (DOMAIN s) : IsToken(s, sp[1], sp[2])}

\* A "<" or ">" that belongs to no complete token
Unbalanced(s) ==
    \E p \in DOMAIN s :
        /\ s[p] \in {"<", ">"}
        /\ \A sp \in TokenSpans(s) : p # sp[1] /\ p # sp[2]

\* C21: parse_rule raises for every template with a "<" or ">" that is not
\* part of a complete token, wherever in the template it stands.
C21_UnbalancedRaises ==
    (fn_result # Pending /\ Unbalanced(fn_args)) =>
        fn_result.status = "raised"

\* The variable name and the converter prefix of the token s[i..j]
TokenVariable(s, i, j) ==
    Sub(s, CHOOSE k \in (i + 1)..j :
               s[k - 1] \in {"<", ":"} /\ IdentEnd(s, k) = j, j - 1)
TokenConverter(s, i, j) ==
    IF IdentEnd(s, i + 1) = j THEN DefaultConverter
    ELSE Sub(s, i + 1, IdentEnd(s, i + 1) - 1)

\* The tokens of a template from p on, in template order
RECURSIVE TokensFrom(_, _)
TokensFrom(s, p) ==
    IF p > Len(s) THEN << >>
    ELSE IF \E j \in DOMAIN s : IsToken(s, p, j)
         THEN LET j == CHOOSE j \in DOMAIN s : IsToken(s, p, j)
              IN << [converter |-> TokenConverter(s, p, j),
                     variable |-> TokenVariable(s, p, j)] >>
                 \o TokensFrom(s, j + 1)
         ELSE TokensFrom(s, p + 1)

\* Two tokens of the template have one variable name
RepeatedName(s) ==
    LET ts == TokensFrom(s, 1)
    IN \E i, j \in DOMAIN ts : i # j /\ ts[i].variable = ts[j].variable

\* The variables among what parse_rule yielded, in the order yielded
YieldedVariables(parts) ==
    LET vs == SelectSeq(parts, LAMBDA part : part.converter # NoneText)
    IN [i \in DOMAIN vs |->
           [converter |-> vs[i].converter, variable |-> vs[i].variable]]

\* C22: parse_rule raises for every template in which two tokens have the
\* same variable name; for a template without repeated names it yields the
\* variable of every token once, in template order, with converter "default"
\* for a token without converter prefix (and a template of complete tokens
\* only does not raise).
C22_UniqueNamesInOrder ==
    fn_result # Pending =>
        /\ RepeatedName(fn_args) => fn_result.status = "raised"
        /\ (~RepeatedName(fn_args) /\ ~Unbalanced(fn_args)) =>
               fn_result.status = "returned"
        /\ fn_result.status = "returned" =>
               YieldedVariables(fn_result.value) = TokensFrom(fn_args, 1)

\* A template of two tokens, the first without converter prefix
C22_Witness ==
    /\ fn_result # Pending
    /\ fn_result.status = "returned"
    /\ Len(TokensFrom(fn_args, 1)) = 2
    /\ TokensFrom(fn_args, 1)[1].converter = DefaultConverter
    /\ TokensFrom(fn_args, 1)[2].converter # DefaultConverter

----------------------------------------------------------------------------
(* Claims about the registry, checked under SpecRegistry *)

\* The models a call declares: in its four slots and in its descriptor
DeclaredModels(args) ==
    ({args.query, args.body.model, args.headers, args.cookies}
     \cup {args.resp.models[i] : i \in DOMAIN args.resp.models}) \ {NoClass}

\* Every registration so far, in order
RECURSIVE AllRegistrations(_)
AllRegistrations(calls) ==
    IF calls = << >> THEN << >>
    ELSE AllRegistrations(SubSeq(calls, 1, Len(calls) - 1))
         \o RegistrationOrder(calls[Len(calls)])

\* The schema the registry holds under a name
RegistryEntry(n) == heap[models[KeyIndex(models, n)].id]

\* C23: after any sequence of decorations the registry has an entry, under
\* its name, for every model declared in a query, body, headers or cookies
\* slot and in a response descriptor, and no other entry (a body descriptor
\* without model adds none); under a name that several registered models
\* share it holds the schema of the one registered last.
C23_RegistryComplete ==
    LET regs == AllRegistrations(fn_args)
    IN /\ {models[i].name : i \in DOMAIN models}
            = {cls.name : cls \in UNION {DeclaredModels(fn_args[i]) :
                                            i \in DOMAIN fn_args}}
       /\ \A i \in DOMAIN regs :
             (\A j \in DOMAIN regs : regs[j].name = regs[i].name => j <= i)
                 => RegistryEntry(regs[i].name) = Schema(regs[i])

\* Two classes named Resp were registered, the one with the nested model
\* last, and a body descriptor without model was declared
C23_Witness ==
    /\ \E i \in DOMAIN fn_args : RespV1 \in DeclaredModels(fn_args[i])
    /\ \E i \in DOMAIN fn_args :
          fn_args[i].body = RequestOf(NoClass)
    /\ HasKey(models, "Resp")
    /\ RegistryEntry("Resp") = Schema(RespV2)

----------------------------------------------------------------------------
(* Claims about schema sanitization, checked under SpecSanitize *)

\* The fields of a "properties" map are cut down to the allow-list, keeping
\* every allowed key of the field they come from
FieldsSanitized(out, in) ==
    \A n \in DOMAIN out :
        /\ KeysOf(out[n]) \subseteq AllowedFields
        /\ n \in DOMAIN in => KeysOf(in[n]) \cap AllowedFields \subseteq KeysOf(out[n])

\* C24: sanitization is recursive: under every key named "properties", at
\* any depth, each field's keys are within the allow-list and every
\* allow-listed key of the input field is kept.
C24_SanitizedAtEveryDepth ==
    fn_result.status = "returned" =>
        LET out == fn_result.value.properties
            in == fn_args.properties
        IN /\ FieldsSanitized(out, in)
           /\ \A n \in DOMAIN out :
                 out[n].has_properties =>
                     FieldsSanitized(out[n].properties, in[n].properties)

\* C29: sanitizing a "properties" map keeps its set of field names: every
\* field of the input is in the output and no field is added.
C29_FieldNamesPreserved ==
    fn_result.status = "returned" =>
        DOMAIN fn_result.value.properties = DOMAIN fn_args.properties

----------------------------------------------------------------------------
(* Claims about components.schemas, checked under SpecComponents *)

\* C25: every "$ref" under components.schemas is "#/components/schemas/<N>"
\* with N a key of components.schemas: references into a model's local
\* bucket are rewritten, every nested model of the bucket is a component of
\* its own, and no component keeps a bucket.
C25_ReferencesResolve ==
    fn_result.status = "returned" =>
        LET schemas == fn_result.value IN
        /\ \A n \in DOMAIN schemas :
              /\ \A r \in schemas[n].refs :
                    r.prefix = ComponentsPrefix /\ r.name \in DOMAIN schemas
              /\ DOMAIN schemas[n].buckets = {}
        /\ \A i \in DOMAIN fn_args :
              DOMAIN fn_args[i].nested \subseteq DOMAIN schemas

----------------------------------------------------------------------------
(* Slot order and the after-hook, checked under Spec *)

\* The place of a slot in the order of validation
SlotRank == [s \in SlotNames |->
                CASE s = "query" -> 1 [] s = "body" -> 2
                  [] s = "headers" -> 3 [] s = "cookies" -> 4]

RequestValidated == \E i \in DOMAIN log : log[i].ev = "request_validation"

\* C26: request validation takes the declared slots in the order query,
\* body, headers, cookies and stops at the first that fails: the error, and
\* the payload built from it, are those of the first rejected slot alone,
\* whatever later slots would have been rejected too, and they are a function
\* of the route and the request.
C26_FirstFailingSlotOnly ==
    RequestValidated =>
        LET rejected == {s \in SlotNames : Declared(route, s) /\ s \in request.bad}
        IN IF rejected = {}
           THEN req_validation_error = None
           ELSE /\ req_validation_error \in rejected
                /\ \A s \in rejected :
                      SlotRank[req_validation_error] <= SlotRank[s]
                /\ response.body = ErrorPayload(req_validation_error)
                /\ before_args.called => before_args.err = req_validation_error
                /\ pc = "aborted" =>
                      returned.body = ErrorPayload(req_validation_error)

\* A request whose body and cookies are both rejected is aborted with the
\* errors of the body
C26_Witness ==
    /\ pc = "aborted"
    /\ request.bad = {"body", "cookies"}
    /\ req_validation_error = "body"
    /\ returned.body = ErrorPayload("body")


AfterCalls == Cardinality(EventAt("after"))

\* validate has ended: by abort, by returning, or by an exception
Completed == pc \in {"aborted", "done", "raised"}

\* func(...) was called and returned
HandlerReturned == HandlerCalls = 1 /\ exception # "handler_error"

----------------------------------------------------------------------------
(* Config.update on a constructed object, checked under SpecConfig *)

\* C28: after any sequence of update calls on a constructed Config, calls
\* that raise included, UI is in {redoc, swagger} and MODE in {normal,
\* strict, greedy}: a rejected update leaves the previous values in place.
\* Stated for objects whose supported sets are the ones __init__ sets.
C28_RejectedUpdateKeepsValues ==
    (/\ config_call = "update"
     /\ config_attrs._SUPPORT_UI = SupportedUI
     /\ config_attrs._SUPPORT_MODE = SupportedMode)
    => /\ config_attrs.UI \subseteq SupportedUI
       /\ config_attrs.MODE \subseteq SupportedMode

----------------------------------------------------------------------------
(* Claims about find_routes, checked under SpecRoutes *)

\* A path lies under a directory: it is the directory, or goes on with "/"
LiesUnder(path, dir) ==
    /\ StartsWith(path, dir)
    /\ Len(path) > Len(dir) => path[Len(dir) + 1] = "/"

\* The documentation path of the application and of each blueprint prefix,
\* and the static path
SkippedDirs(app) ==
    {<< "/", "apidoc" >>, << "/", "static" >>}
    \cup {p \o << "/", "apidoc" >> : p \in app.blueprints}

\* C30: find_routes yields every rule that lies neither under the
\* documentation path (of the application or of a blueprint prefix) nor
\* under the static path, and skips a rule only if it lies under one of
\* them, not because its text begins with the same characters.
C30_SkipsOnlyRoutesUnderPaths ==
    fn_result.status = "returned" =>
        fn_result.value =
            SelectSeq(fn_args.rules,
                      LAMBDA rule : ~ \E dir \in SkippedDirs(fn_args) :
                                          LiesUnder(rule, dir))

====
